---------------------------- MODULE Spec2Model ----------------------------
(***************************************************************************)
(* A model of the goldfinger LCD driver (src/src/resource/lcd.rs): the     *)
(* command encoder, the screen buffer and its diff, the clock text         *)
(* builder, the driver's on_start / on_tick handlers, the serial port      *)
(* they write to and the character display at the other end of it; and of  *)
(* the weather forecast (src/src/weather.rs): its cache and fetch threads, *)
(* the periods shown, and the e-paper Display that draws them              *)
(* (src/src/display.rs); and of the user state and its settings file       *)
(* (src/src/state.rs).                                                     *)
(*                                                                         *)
(* Coordinates are 0-indexed as in the code; TLA+ sequences are 1-indexed, *)
(* so cell (x, y) of a text is lines[y + 1][x + 1].                        *)
(***************************************************************************)
EXTENDS Integers, Sequences, FiniteSets, Bags, TLC

(***************************************************************************)
(* Bounds of the model.                                                    *)
(***************************************************************************)
\* How many of DiffCells are free in the frames of SpecDiff.
NumDiffCells == 4
\* How many of SampleInstants the clock may show.
NumInstants == 3
\* How many of SampleColors the user may request.
NumColors == 2
\* How many of SampleBytes are used as command parameters in SpecEncode.
NumBytes == 4
\* The characters of the jumbo texts are the first NumJumboChars of
\* SampleJumboChars; the texts have up to MaxJumboLen characters.
NumJumboChars == 4
MaxJumboLen == 6
\* A forecast of SpecWeather has up to MaxPeriods periods.
MaxPeriods == 8
\* How many fetch threads Weather spawns in a run of SpecDisplay.
MaxFetches == 2
\* How many seconds a run of SpecDisplay lasts.
MaxSeconds == 601
\* How many times each caller of SpecState calls UserStateManager::set.
MaxSets == 2
\* How many writes of a call the port of SpecPort cuts short, how many
\* bytes it accepts of such a write at most, and up to which write of the
\* call it does so.
MaxShortWrites == 2
MaxAccepted == 1
MaxShortAt == 3

(***************************************************************************)
(* Constants of lcd.rs.                                                    *)
(***************************************************************************)
LCD_WIDTH == 20
LCD_HEIGHT == 4
COMMAND_BYTE == 254
FUL == 255
EMT == 32

Min(a, b) == IF a < b THEN a ELSE b

(***************************************************************************)
(* CustomCharacter                                                         *)
(***************************************************************************)
CustomCharacter ==
    {"HalfBottomRight", "HalfBottomLeft", "Bottom", "FullBottomRight",
     "FullBottomLeft"}

CustomCharacter_ALL ==
    <<"HalfBottomRight", "HalfBottomLeft", "Bottom", "FullBottomLeft",
      "FullBottomRight">>

\* A mutant of CustomCharacter_tag: the tag of Bottom is the command byte.
CustomCharacter_tag_sentinel(character) ==
    CASE character = "HalfBottomRight" -> 0
      [] character = "HalfBottomLeft" -> 1
      [] character = "Bottom" -> 254
      [] character = "FullBottomRight" -> 3
      [] character = "FullBottomLeft" -> 4

CustomCharacter_tag(character) ==
    CASE character = "HalfBottomRight" -> 0
      [] character = "HalfBottomLeft" -> 1
      [] character = "Bottom" -> 2
      [] character = "FullBottomRight" -> 3
      [] character = "FullBottomLeft" -> 4

\* A mutant of CustomCharacter_pixels: the top pixel row is dropped.
CustomCharacter_pixels_short(character) ==
    CASE character = "HalfBottomRight" -> <<0, 0, 0, 3, 15, 15, 31>>
      [] character = "HalfBottomLeft" -> <<0, 0, 0, 24, 30, 30, 31>>
      [] character = "Bottom" -> <<0, 0, 0, 31, 31, 31, 31>>
      [] character = "FullBottomRight" -> <<31, 31, 31, 31, 15, 15, 3>>
      [] character = "FullBottomLeft" -> <<31, 31, 31, 31, 30, 30, 24>>

CustomCharacter_pixels(character) ==
    CASE character = "HalfBottomRight" -> <<0, 0, 0, 0, 3, 15, 15, 31>>
      [] character = "HalfBottomLeft" -> <<0, 0, 0, 0, 24, 30, 30, 31>>
      [] character = "Bottom" -> <<0, 0, 0, 0, 31, 31, 31, 31>>
      [] character = "FullBottomRight" -> <<31, 31, 31, 31, 31, 15, 15, 3>>
      [] character = "FullBottomLeft" -> <<31, 31, 31, 31, 31, 30, 30, 24>>

HBR == CustomCharacter_tag("HalfBottomRight")
HBL == CustomCharacter_tag("HalfBottomLeft")
BOT == CustomCharacter_tag("Bottom")
FBR == CustomCharacter_tag("FullBottomRight")
FBL == CustomCharacter_tag("FullBottomLeft")

(***************************************************************************)
(* Color (util.rs)                                                         *)
(***************************************************************************)
\* Color::BLACK
Color_BLACK == [red |-> 0, green |-> 0, blue |-> 0]

\* A mutant of Color_default: white.
Color_default_white == [red |-> 255, green |-> 255, blue |-> 255]

Color_default == [red |-> 0, green |-> 0, blue |-> 0]

Color_to_bytes(color) == <<color.red, color.green, color.blue>>

(***************************************************************************)
(* LcdCommand: a record whose field "type" names the variant and whose     *)
(* other fields are the variant's.                                         *)
(***************************************************************************)
Cmd_Clear == [type |-> "Clear"]
Cmd_BacklightOn == [type |-> "BacklightOn"]
Cmd_BacklightOff == [type |-> "BacklightOff"]
Cmd_SetSize(width, height) ==
    [type |-> "SetSize", width |-> width, height |-> height]
Cmd_SetBrightness(brightness) ==
    [type |-> "SetBrightness", brightness |-> brightness]
Cmd_SetContrast(contrast) == [type |-> "SetContrast", contrast |-> contrast]
Cmd_SetColor(color) == [type |-> "SetColor", color |-> color]
Cmd_CursorPos(x, y) == [type |-> "CursorPos", x |-> x, y |-> y]
Cmd_SaveCustomCharacter(bank, character) ==
    [type |-> "SaveCustomCharacter", bank |-> bank, character |-> character]
Cmd_LoadCharacterBank(bank) == [type |-> "LoadCharacterBank", bank |-> bank]

LcdCommand_tag(command) ==
    CASE command.type = "Clear" -> 88
      [] command.type = "BacklightOn" -> 66
      [] command.type = "BacklightOff" -> 70
      [] command.type = "SetSize" -> 209
      [] command.type = "SetBrightness" -> 152
      [] command.type = "SetContrast" -> 145
      [] command.type = "SetColor" -> 208
      [] command.type = "CursorPos" -> 71
      [] command.type = "SaveCustomCharacter" -> 193
      [] command.type = "LoadCharacterBank" -> 192

\* The parameter bytes into_bytes appends after the sentinel and the tag.
\* A mutant of LcdCommand_params: SetSize sends the height before the width.
LcdCommand_params_swapped(command) ==
    CASE command.type = "Clear" -> <<>>
      [] command.type = "BacklightOn" -> <<0>>
      [] command.type = "BacklightOff" -> <<>>
      [] command.type = "SetSize" -> <<command.height, command.width>>
      [] command.type = "SetBrightness" -> <<command.brightness>>
      [] command.type = "SetContrast" -> <<command.contrast>>
      [] command.type = "SetColor" -> Color_to_bytes(command.color)
      [] command.type = "CursorPos" -> <<command.x, command.y>>
      [] command.type = "SaveCustomCharacter" ->
            <<193, command.bank, CustomCharacter_tag(command.character)>>
                \o CustomCharacter_pixels(command.character)
      [] command.type = "LoadCharacterBank" -> <<command.bank>>

LcdCommand_params(command) ==
    CASE command.type = "Clear" -> <<>>
      [] command.type = "BacklightOn" -> <<0>>
      [] command.type = "BacklightOff" -> <<>>
      [] command.type = "SetSize" -> <<command.width, command.height>>
      [] command.type = "SetBrightness" -> <<command.brightness>>
      [] command.type = "SetContrast" -> <<command.contrast>>
      [] command.type = "SetColor" -> Color_to_bytes(command.color)
      [] command.type = "CursorPos" -> <<command.x, command.y>>
      [] command.type = "SaveCustomCharacter" ->
            <<193, command.bank, CustomCharacter_tag(command.character)>>
                \o CustomCharacter_pixels(command.character)
      [] command.type = "LoadCharacterBank" -> <<command.bank>>

into_bytes(command) ==
    <<COMMAND_BYTE, LcdCommand_tag(command)>> \o LcdCommand_params(command)

(***************************************************************************)
(* LcdText                                                                 *)
(***************************************************************************)
LcdText_default ==
    [lines |-> [y \in 1..LCD_HEIGHT |-> [x \in 1..LCD_WIDTH |-> 32]]]

LcdText_get(text, x, y) == text.lines[y + 1][x + 1]

LcdText_set(text, x, y, value) ==
    [text EXCEPT !.lines[y + 1][x + 1] = value]

LcdText_clear(text) ==
    [text EXCEPT !.lines = [y \in 1..LCD_HEIGHT |-> [x \in 1..LCD_WIDTH |-> 32]]]

\* A mutant of LcdText_get_slice: the slice starts one column late.
LcdText_get_slice_shifted(text, group) ==
    SubSeq(text.lines[group.y + 1], group.x + 2,
           Min(group.x + group.length + 1, LCD_WIDTH))
        \o (IF group.x + group.length + 1 > LCD_WIDTH THEN <<32>> ELSE <<>>)

\* &self.lines[group.y][group.x..group.x + group.length]
LcdText_get_slice(text, group) ==
    SubSeq(text.lines[group.y + 1], group.x + 1, group.x + group.length)

(***************************************************************************)
(* TextGroup                                                               *)
(***************************************************************************)
TextGroup_new(x, y) == [x |-> x, y |-> y, length |-> 1]

TextGroup_extend(group) == [group EXCEPT !.length = @ + 1]


(***************************************************************************)
(* The display at the other end of the serial port, as lcd.rs describes    *)
(* it: a write that starts with the command byte is one command frame, any *)
(* other write is text, put at the cursor with autowrap; cursor positions  *)
(* are 1-based.  rgb is the empty sequence until a color has been set.     *)
(* garbled is set when the display has been given a command frame cut      *)
(* short: lcd.rs does not say what it makes of the bytes that follow, and  *)
(* the model stops following the display from there.                       *)
(***************************************************************************)
Display_put(dev, byte) ==
    LET on_grid == dev.cx \in 1..LCD_WIDTH /\ dev.cy \in 1..LCD_HEIGHT
        lines1 == IF on_grid
                  THEN [dev.lines EXCEPT ![dev.cy][dev.cx] = byte]
                  ELSE dev.lines
        wrap == dev.cx + 1 > LCD_WIDTH
        cx1 == IF wrap THEN 1 ELSE dev.cx + 1
        cy1 == IF wrap
               THEN (IF dev.cy + 1 > LCD_HEIGHT THEN 1 ELSE dev.cy + 1)
               ELSE dev.cy
    IN  [dev EXCEPT !.lines = lines1, !.cx = cx1, !.cy = cy1]

RECURSIVE Display_text(_, _, _)
Display_text(dev, bytes, i) ==
    IF i > Len(bytes)
    THEN dev
    ELSE Display_text(Display_put(dev, bytes[i]), bytes, i + 1)

Display_command(dev, bytes) ==
    CASE bytes[2] = 88 ->
            [dev EXCEPT !.lines = LcdText_default.lines, !.cx = 1, !.cy = 1]
      [] bytes[2] = 66 -> [dev EXCEPT !.backlight = TRUE]
      [] bytes[2] = 70 -> [dev EXCEPT !.backlight = FALSE]
      [] bytes[2] = 208 -> [dev EXCEPT !.rgb = SubSeq(bytes, 3, 5)]
      [] bytes[2] = 71 -> [dev EXCEPT !.cx = bytes[3], !.cy = bytes[4]]
      [] OTHER -> dev

Display_write(dev, bytes) ==
    IF bytes = <<>>
    THEN dev
    ELSE IF bytes[1] = COMMAND_BYTE
         THEN Display_command(dev, bytes)
         ELSE Display_text(dev, bytes, 1)

\* The display is given the first n bytes of a write.
Display_accept(dev, bytes, n) ==
    IF dev.garbled
    THEN dev
    ELSE IF n = Len(bytes)
         THEN Display_write(dev, bytes)
         ELSE IF n = 0
              THEN dev
              ELSE IF bytes[1] = COMMAND_BYTE
                   THEN [dev EXCEPT !.garbled = TRUE]
                   ELSE Display_text(dev, SubSeq(bytes, 1, n), 1)

(***************************************************************************)
(* LcdSerialPort.  A driver call is run on a record m that holds the Lcd   *)
(* fields (color, text), the diff groups set_text has built, and the port: *)
(* sent is the bytes of each write call that returned Ok during the call,  *)
(* in order; budget is the number of writes the port will still accept     *)
(* before one fails; failed holds the bytes of the write that returned the *)
(* error; err is the Err the call is returning, or, with panic, the panic  *)
(* that unwinds it; dev is the display, which takes the bytes of each      *)
(* write as the port accepts them.  A write that fails delivers nothing.   *)
(* Write::write may accept fewer bytes than it is given and return their   *)
(* number: plan is a function from the places of the write calls the port  *)
(* will cut short to the number of bytes it will accept of each at most;   *)
(* short records the cuts as they take place.                              *)
(***************************************************************************)
\* A mutant of serial_write: write_all, which calls write again with the
\* bytes the port did not accept.
serial_write_all(m, bytes) ==
    IF m.budget = 0
    THEN [m EXCEPT !.err = TRUE, !.failed = <<bytes>>]
    ELSE LET at == Len(m.sent) + 1
             cut == at \in DOMAIN m.plan
             n == IF cut THEN Min(m.plan[at], Len(bytes) - 1) ELSE Len(bytes)
         IN  [m EXCEPT !.sent = IF cut
                                THEN @ \o <<bytes, SubSeq(bytes, n + 1, Len(bytes))>>
                                ELSE Append(@, bytes),
                       !.budget = @ - 1,
                       !.dev = Display_accept(@, bytes, Len(bytes))]

\* self.0.write(bytes): one call, its count ignored.
serial_write(m, bytes) ==
    IF m.budget = 0
    THEN [m EXCEPT !.err = TRUE, !.failed = <<bytes>>]
    ELSE LET at == Len(m.sent) + 1
             cut == at \in DOMAIN m.plan
             n == IF cut THEN Min(m.plan[at], Len(bytes) - 1) ELSE Len(bytes)
         IN  [m EXCEPT !.sent = Append(@, bytes), !.budget = @ - 1,
                       !.short = IF cut
                                 THEN Append(@, [at |-> at, accepted |-> n])
                                 ELSE @,
                       !.dev = Display_accept(@, bytes, n)]

command(m, cmd) == serial_write(m, into_bytes(cmd))

write_at(m, x, y, bytes) ==
    LET m1 == command(m, Cmd_CursorPos(x, y))
    IN  IF m1.err THEN m1 ELSE serial_write(m1, bytes)

(***************************************************************************)
(* Lcd::set_color                                                          *)
(***************************************************************************)
\* A mutant of set_color: the color is sent whether or not it has changed.
set_color_always(m, color) ==
    command([m EXCEPT !.color = color], Cmd_SetColor(color))

set_color(m, color) ==
    IF m.color # color
    THEN command([m EXCEPT !.color = color], Cmd_SetColor(color))
    ELSE m

(***************************************************************************)
(* Lcd::set_text.  The scan runs on st = [text, diff_groups,               *)
(* current_diff_group], the last a sequence of at most one group (None is  *)
(* the empty sequence).                                                    *)
(***************************************************************************)
finish_group(st) ==
    IF st.current_diff_group = <<>>
    THEN st
    ELSE [st EXCEPT !.diff_groups = Append(@, st.current_diff_group[1]),
                    !.current_diff_group = <<>>]

\* A mutant of ScanCell: an unchanged cell does not end the open group but
\* is taken into it.
ScanCell_greedy(st, new, x, y) ==
    LET old_byte == LcdText_get(st.text, x, y)
        new_byte == LcdText_get(new, x, y)
    IN  IF old_byte = new_byte /\ st.current_diff_group = <<>>
        THEN finish_group(st)
        ELSE LET st1 == [st EXCEPT !.text = LcdText_set(@, x, y, new_byte)]
             IN  IF st1.current_diff_group = <<>>
                 THEN [st1 EXCEPT !.current_diff_group = <<TextGroup_new(x, y)>>]
                 ELSE [st1 EXCEPT !.current_diff_group =
                                      <<TextGroup_extend(@[1])>>]

\* A mutant of ScanCell: every cell counts as changed (no diffing).
ScanCell_all(st, new, x, y) ==
    LET new_byte == LcdText_get(new, x, y)
        st1 == [st EXCEPT !.text = LcdText_set(@, x, y, new_byte)]
    IN  IF st1.current_diff_group = <<>>
        THEN [st1 EXCEPT !.current_diff_group = <<TextGroup_new(x, y)>>]
        ELSE [st1 EXCEPT !.current_diff_group = <<TextGroup_extend(@[1])>>]

\* A mutant of ScanCell: a changed cell never extends the open group; it
\* closes it and opens a group of its own.
ScanCell_split(st, new, x, y) ==
    LET old_byte == LcdText_get(st.text, x, y)
        new_byte == LcdText_get(new, x, y)
    IN  IF old_byte = new_byte
        THEN finish_group(st)
        ELSE LET st1 == finish_group(
                            [st EXCEPT !.text = LcdText_set(@, x, y, new_byte)])
             IN  [st1 EXCEPT !.current_diff_group = <<TextGroup_new(x, y)>>]

\* The body of the inner loop, for one cell.
ScanCell(st, new, x, y) ==
    LET old_byte == LcdText_get(st.text, x, y)
        new_byte == LcdText_get(new, x, y)
    IN  IF old_byte = new_byte
        THEN finish_group(st)
        ELSE LET st1 == [st EXCEPT !.text = LcdText_set(@, x, y, new_byte)]
             IN  IF st1.current_diff_group = <<>>
                 THEN [st1 EXCEPT !.current_diff_group = <<TextGroup_new(x, y)>>]
                 ELSE [st1 EXCEPT !.current_diff_group =
                                      <<TextGroup_extend(@[1])>>]

\* for x in x..LCD_WIDTH
RECURSIVE ScanLineFrom(_, _, _, _)
ScanLineFrom(st, new, x, y) ==
    IF x >= LCD_WIDTH
    THEN st
    ELSE ScanLineFrom(ScanCell(st, new, x, y), new, x + 1, y)

\* A mutant of ScanFrom: the group open at the end of a line is not finished.
RECURSIVE ScanFrom_open(_, _, _)
ScanFrom_open(st, new, y) ==
    IF y >= LCD_HEIGHT
    THEN st
    ELSE LET st1 == ScanLineFrom(st, new, 0, y)
         IN  IF st1.current_diff_group = <<>>
             THEN ScanFrom_open(st1, new, y + 1)
             ELSE ScanFrom_open(st1, new, y + 1)

\* for y in y..LCD_HEIGHT: the cells of line y, then "always finish a group
\* at the end of a line".
RECURSIVE ScanFrom(_, _, _)
ScanFrom(st, new, y) ==
    IF y >= LCD_HEIGHT
    THEN st
    ELSE LET st1 == ScanLineFrom(st, new, 0, y)
         IN  IF st1.current_diff_group = <<>>
             THEN ScanFrom(st1, new, y + 1)
             ELSE ScanFrom(finish_group(st1), new, y + 1)

\* A mutant of WriteGroup: the cursor is sent 0-indexed.
WriteGroup_zero(m, group) ==
    IF group.x + group.length > LCD_WIDTH
    THEN [m EXCEPT !.err = TRUE, !.panic = TRUE]
    ELSE write_at(m, group.x % 256, group.y % 256,
                  LcdText_get_slice(m.text, group))

\* The body of the write loop, for one group ("LCD positions are 1-indexed").
\* A slice that ends beyond the line panics before anything is written.
WriteGroup(m, group) ==
    IF group.x + group.length > LCD_WIDTH
    THEN [m EXCEPT !.err = TRUE, !.panic = TRUE]
    ELSE write_at(m, (group.x % 256) + 1, (group.y % 256) + 1,
                  LcdText_get_slice(m.text, group))

\* for group in diff_groups, from the i-th; the first error ends the loop.
RECURSIVE WriteGroupsFrom(_, _, _)
WriteGroupsFrom(m, groups, i) ==
    IF i > Len(groups)
    THEN m
    ELSE LET m1 == WriteGroup(m, groups[i])
         IN  IF m1.err THEN m1 ELSE WriteGroupsFrom(m1, groups, i + 1)

\* A mutant of set_text: a failed write puts the buffer back as it was.
set_text_rollback(m, text) ==
    LET st == ScanFrom([text |-> m.text, diff_groups |-> <<>>,
                        current_diff_group |-> <<>>], text, 0)
        m1 == [m EXCEPT !.text = st.text, !.diff_groups = st.diff_groups]
        m2 == WriteGroupsFrom(m1, st.diff_groups, 1)
    IN  IF m2.err THEN [m2 EXCEPT !.text = m.text] ELSE m2

set_text(m, text) ==
    LET st == ScanFrom([text |-> m.text, diff_groups |-> <<>>,
                        current_diff_group |-> <<>>], text, 0)
        m1 == [m EXCEPT !.text = st.text, !.diff_groups = st.diff_groups]
    IN  WriteGroupsFrom(m1, st.diff_groups, 1)


(***************************************************************************)
(* The jumbo characters.  A call of get_jumbo_character or                 *)
(* write_jumbo_text returns a record whose status is "ok", "err" (the      *)
(* function returned Err) or "panic" (a slice out of range).               *)
(***************************************************************************)
\* A mutant of get_jumbo_character: a character it does not know is drawn
\* as a blank.
get_jumbo_character_blank(character) ==
    IF character \in (48..57) \cup {58}
    THEN [status |-> "ok",
          bytes |-> IF character = 58 THEN <<<<FUL>>, <<EMT>>, <<FUL>>>>
                    ELSE <<<<HBR, BOT, HBL>>, <<FUL, BOT, FUL>>,
                           <<FBR, BOT, FBL>>>>]
    ELSE [status |-> "ok",
          bytes |-> <<<<EMT, EMT, EMT>>, <<EMT, EMT, EMT>>, <<EMT, EMT, EMT>>>>]

get_jumbo_character(character) ==
    CASE character = 48 ->
            [status |-> "ok",
             bytes |-> <<<<HBR, BOT, HBL>>, <<FUL, EMT, FUL>>, <<FBR, BOT, FBL>>>>]
      [] character = 49 ->
            [status |-> "ok",
             bytes |-> <<<<BOT, HBL, EMT>>, <<EMT, FUL, EMT>>, <<BOT, FUL, BOT>>>>]
      [] character = 50 ->
            [status |-> "ok",
             bytes |-> <<<<HBR, BOT, HBL>>, <<HBR, BOT, FBL>>, <<FBR, BOT, BOT>>>>]
      [] character = 51 ->
            [status |-> "ok",
             bytes |-> <<<<HBR, BOT, HBL>>, <<EMT, BOT, FUL>>, <<BOT, BOT, FBL>>>>]
      [] character = 52 ->
            [status |-> "ok",
             bytes |-> <<<<BOT, EMT, BOT>>, <<FBR, BOT, FUL>>, <<EMT, EMT, FUL>>>>]
      [] character = 53 ->
            [status |-> "ok",
             bytes |-> <<<<BOT, BOT, BOT>>, <<FUL, BOT, HBL>>, <<BOT, BOT, FBL>>>>]
      [] character = 54 ->
            [status |-> "ok",
             bytes |-> <<<<HBR, BOT, HBL>>, <<FUL, BOT, HBL>>, <<FBR, BOT, FBL>>>>]
      [] character = 55 ->
            [status |-> "ok",
             bytes |-> <<<<BOT, BOT, BOT>>, <<EMT, HBR, FBL>>, <<EMT, FUL, EMT>>>>]
      [] character = 56 ->
            [status |-> "ok",
             bytes |-> <<<<HBR, BOT, HBL>>, <<FUL, BOT, FUL>>, <<FBR, BOT, FBL>>>>]
      [] character = 57 ->
            [status |-> "ok",
             bytes |-> <<<<HBR, BOT, HBL>>, <<FBR, BOT, FUL>>, <<EMT, EMT, FUL>>>>]
      [] character = 32 ->
            [status |-> "ok",
             bytes |-> <<<<EMT, EMT, EMT>>, <<EMT, EMT, EMT>>, <<EMT, EMT, EMT>>>>]
      [] character = 58 ->
            [status |-> "ok", bytes |-> <<<<FUL>>, <<EMT>>, <<FUL>>>>]
      [] OTHER -> [status |-> "err", bytes |-> <<>>]

Max(a, b) == IF a > b THEN a ELSE b

\* line[x..x + Len(bytes)].copy_from_slice(bytes), x 0-indexed
CopyInto(line, x, bytes) ==
    SubSeq(line, 1, x) \o bytes \o SubSeq(line, x + Len(bytes) + 1, Len(line))

\* A mutant of write_jumbo_from: no column is left between two characters.
RECURSIVE write_jumbo_from_nogap(_, _, _, _)
write_jumbo_from_nogap(line_buffer, text, i, x) ==
    IF i > Len(text)
    THEN [status |-> "ok", lines |-> line_buffer]
    ELSE LET jumbo == get_jumbo_character(text[i])
         IN  IF jumbo.status # "ok"
             THEN [status |-> "err", lines |-> line_buffer]
             ELSE LET jumbo_bytes == jumbo.bytes
                      x_len == Max(Len(jumbo_bytes[1]),
                                   Max(Len(jumbo_bytes[2]), Len(jumbo_bytes[3])))
                  IN  IF \E y \in 1..3 :
                            x + Len(jumbo_bytes[y]) > Len(line_buffer[y])
                      THEN [status |-> "panic", lines |-> line_buffer]
                      ELSE write_jumbo_from_nogap(
                               [y \in 1..3 |->
                                   CopyInto(line_buffer[y], x, jumbo_bytes[y])],
                               text, i + 1, x + x_len)

\* The loop of write_jumbo_text from the i-th character of text, with the
\* three line slices as they are and the next character at column x.
RECURSIVE write_jumbo_from(_, _, _, _)
write_jumbo_from(line_buffer, text, i, x) ==
    IF i > Len(text)
    THEN [status |-> "ok", lines |-> line_buffer]
    ELSE LET jumbo == get_jumbo_character(text[i])
         IN  IF jumbo.status # "ok"
             THEN [status |-> "err", lines |-> line_buffer]
             ELSE LET jumbo_bytes == jumbo.bytes
                      x_len == Max(Len(jumbo_bytes[1]),
                                   Max(Len(jumbo_bytes[2]), Len(jumbo_bytes[3])))
                  IN  IF \E y \in 1..3 :
                            x + Len(jumbo_bytes[y]) > Len(line_buffer[y])
                      THEN [status |-> "panic", lines |-> line_buffer]
                      ELSE write_jumbo_from(
                               [y \in 1..3 |->
                                   CopyInto(line_buffer[y], x, jumbo_bytes[y])],
                               text, i + 1, x + x_len + 1)

write_jumbo_text(line_buffer, text) == write_jumbo_from(line_buffer, text, 1, 0)

(***************************************************************************)
(* get_clock_text.  now is the local time: weekday 1..7 from Monday, month *)
(* 1..12, day, hour 0..23, minute, second.                                 *)
(***************************************************************************)
WeekdayName ==
    << <<77, 111, 110, 100, 97, 121>>,
       <<84, 117, 101, 115, 100, 97, 121>>,
       <<87, 101, 100, 110, 101, 115, 100, 97, 121>>,
       <<84, 104, 117, 114, 115, 100, 97, 121>>,
       <<70, 114, 105, 100, 97, 121>>,
       <<83, 97, 116, 117, 114, 100, 97, 121>>,
       <<83, 117, 110, 100, 97, 121>> >>

MonthAbbrev ==
    << <<74, 97, 110>>,
       <<70, 101, 98>>,
       <<77, 97, 114>>,
       <<65, 112, 114>>,
       <<77, 97, 121>>,
       <<74, 117, 110>>,
       <<74, 117, 108>>,
       <<65, 117, 103>>,
       <<83, 101, 112>>,
       <<79, 99, 116>>,
       <<78, 111, 118>>,
       <<68, 101, 99>> >>

\* The decimal digits of n.
RECURSIVE Decimal(_)
Decimal(n) ==
    IF n < 10 THEN <<48 + n>> ELSE Decimal(n \div 10) \o <<48 + (n % 10)>>

\* %S and %M: two digits, zero-padded.
ZeroPadded2(n) == IF n < 10 THEN <<48>> \o Decimal(n) ELSE Decimal(n)

\* %_I: the hour of the 12-hour clock, space-padded to two characters.
Hour12(hour) == IF hour % 12 = 0 THEN 12 ELSE hour % 12

SpacePadded2(n) == IF n < 10 THEN <<32>> \o Decimal(n) ELSE Decimal(n)

\* {s:<width}: s, then spaces up to width; a longer s is not cut.
PadRight(s, width) ==
    s \o [i \in 1..(IF Len(s) < width THEN width - Len(s) ELSE 0) |-> 32]

\* "%A, %b %-d"
FormatDate(now) ==
    WeekdayName[now.weekday] \o <<44, 32>> \o MonthAbbrev[now.month]
        \o <<32>> \o Decimal(now.day)

\* A mutant of FormatTime: the seconds are shown too, "%_I:%M:%S".
FormatTime_seconds(now) ==
    SpacePadded2(Hour12(now.hour)) \o <<58>> \o ZeroPadded2(now.minute)
        \o <<58>> \o ZeroPadded2(now.second)

\* "%_I:%M"
FormatTime(now) ==
    SpacePadded2(Hour12(now.hour)) \o <<58>> \o ZeroPadded2(now.minute)

get_clock_text(now) ==
    LET line0 == PadRight(FormatDate(now), 18) \o ZeroPadded2(now.second)
        blank == LcdText_default.lines
        x_offset == 1
        jumbo == write_jumbo_text(
                     [y \in 1..3 |->
                         SubSeq(blank[y + 1], x_offset + 1, LCD_WIDTH)],
                     FormatTime(now))
    IN  IF Len(line0) # LCD_WIDTH
        THEN [status |-> "err", text |-> LcdText_default]
        ELSE IF jumbo.status # "ok"
             THEN [status |-> jumbo.status, text |-> LcdText_default]
             ELSE [status |-> "ok",
                   text |->
                     [lines |->
                        [y \in 1..LCD_HEIGHT |->
                           IF y = 1
                           THEN line0
                           ELSE SubSeq(blank[y], 1, x_offset)
                                    \o jumbo.lines[y - 1]]]]

(***************************************************************************)
(* Resource for Lcd: on_start and on_tick.                                 *)
(***************************************************************************)
\* The commands of on_start, in the order it sends them.
\* A mutant of on_start_commands: the bank is loaded before the tiles are
\* saved.
on_start_commands_early_load ==
    <<Cmd_Clear, Cmd_BacklightOn, Cmd_SetSize(LCD_WIDTH % 256, LCD_HEIGHT % 256),
      Cmd_SetContrast(255), Cmd_SetBrightness(255), Cmd_LoadCharacterBank(0)>>
        \o [i \in 1..Len(CustomCharacter_ALL) |->
               Cmd_SaveCustomCharacter(0, CustomCharacter_ALL[i])]

on_start_commands ==
    <<Cmd_Clear, Cmd_BacklightOn, Cmd_SetSize(LCD_WIDTH % 256, LCD_HEIGHT % 256),
      Cmd_SetContrast(255), Cmd_SetBrightness(255)>>
        \o [i \in 1..Len(CustomCharacter_ALL) |->
               Cmd_SaveCustomCharacter(0, CustomCharacter_ALL[i])]
        \o <<Cmd_LoadCharacterBank(0)>>

\* self.serial.command(c)? for each c of commands from the i-th: the first
\* error is returned at once.
RECURSIVE CommandsFrom(_, _, _)
CommandsFrom(m, commands, i) ==
    IF i > Len(commands)
    THEN m
    ELSE LET m1 == command(m, commands[i])
         IN  IF m1.err THEN m1 ELSE CommandsFrom(m1, commands, i + 1)

on_start(m) == CommandsFrom(m, on_start_commands, 1)

\* A mutant of on_tick_off: the screen buffer is not reset.
on_tick_off_stale(m) ==
    LET m1 == command(m, Cmd_BacklightOff)
    IN  IF m1.err
        THEN m1
        ELSE command(m1, Cmd_Clear)

\* A mutant of on_tick_off: the screen is cleared before the backlight goes
\* off.
on_tick_off_swapped(m) ==
    LET m1 == command(m, Cmd_Clear)
    IN  IF m1.err
        THEN m1
        ELSE LET m2 == command(m1, Cmd_BacklightOff)
             IN  IF m2.err
                 THEN m2
                 ELSE [m2 EXCEPT !.text = LcdText_clear(@)]

\* A mutant of on_tick_off: Clear is not sent, the screen buffer is reset
\* all the same.
on_tick_off_no_clear(m) ==
    LET m1 == command(m, Cmd_BacklightOff)
    IN  IF m1.err
        THEN m1
        ELSE [m1 EXCEPT !.text = LcdText_clear(@)]

\* A mutant of on_tick_off: the last-applied color is reset with the
\* screen buffer.
on_tick_off_forget(m) ==
    LET m1 == command(m, Cmd_BacklightOff)
    IN  IF m1.err
        THEN m1
        ELSE LET m2 == command(m1, Cmd_Clear)
             IN  IF m2.err
                 THEN m2
                 ELSE [m2 EXCEPT !.text = LcdText_clear(@),
                                 !.color = Color_default]

\* A mutant of on_tick_off: nothing is sent when the screen buffer is
\* blank already.
on_tick_off_dedup(m) ==
    IF m.text = LcdText_default
    THEN m
    ELSE LET m1 == command(m, Cmd_BacklightOff)
         IN  IF m1.err
             THEN m1
             ELSE LET m2 == command(m1, Cmd_Clear)
                  IN  IF m2.err
                      THEN m2
                      ELSE [m2 EXCEPT !.text = LcdText_clear(@)]

\* on_tick, LcdMode::Off
on_tick_off(m) ==
    LET m1 == command(m, Cmd_BacklightOff)
    IN  IF m1.err
        THEN m1
        ELSE LET m2 == command(m1, Cmd_Clear)
             IN  IF m2.err
                 THEN m2
                 ELSE [m2 EXCEPT !.text = LcdText_clear(@)]

\* A mutant of on_tick_clock: an error of set_color is dropped and the text
\* is written all the same.
on_tick_clock_ignore(m, user_state, clock) ==
    LET m1 == [set_color(m, user_state.color) EXCEPT !.err = FALSE]
    IN  IF clock.status # "ok"
        THEN [m1 EXCEPT !.err = TRUE]
        ELSE set_text(m1, clock.text)

\* A mutant of on_tick_clock: the backlight is switched on before the
\* color is set.
on_tick_clock_relight(m, user_state, clock) ==
    LET m0 == command(m, Cmd_BacklightOn)
        m1 == IF m0.err THEN m0 ELSE set_color(m0, user_state.color)
    IN  IF m1.err
        THEN m1
        ELSE IF clock.status # "ok"
             THEN [m1 EXCEPT !.err = TRUE]
             ELSE set_text(m1, clock.text)

\* on_tick, LcdMode::Clock; clock is what get_clock_text() returns at the
\* time of the call.
on_tick_clock(m, user_state, clock) ==
    LET m1 == set_color(m, user_state.color)
    IN  IF m1.err
        THEN m1
        ELSE IF clock.status # "ok"
             THEN [m1 EXCEPT !.err = TRUE]
             ELSE set_text(m1, clock.text)

on_tick(m, user_state, clock) ==
    CASE user_state.mode = "Off" -> on_tick_off(m)
      [] user_state.mode = "Clock" -> on_tick_clock(m, user_state, clock)

(***************************************************************************)
(* Forecast (weather.rs).  Times are minutes; a ForecastPeriod is a record *)
(* of start_time and end_time (UTC), temperature, and                      *)
(* probability_of_precipitation, <<>> for None and <<v>> for Some(v).      *)
(* Local time is UTC plus tz minutes.                                      *)
(***************************************************************************)
DAY_START == 4 * 60 + 30
DAY_END == 22 * 60 + 30
JOINED_PERIODS == 3

\* The time of day of DateTime<Local>::time().
LocalTimeOfDay(t, tz) == (t + tz) % (24 * 60)

\* A mutant of RustDiv: the quotient is rounded down.
RustDiv_floor(a, b) == a \div b

\* a / b of i32: the quotient is cut towards zero.
RustDiv(a, b) == IF a >= 0 THEN a \div b ELSE -((-a) \div b)

\* iter.sum::<i32>()
RECURSIVE Sum(_)
Sum(values) == IF values = <<>> THEN 0 ELSE Head(values) + Sum(Tail(values))

Temperatures(periods) == [i \in 1..Len(periods) |-> periods[i].temperature]

\* period.probability_of_precipitation.value.unwrap_or_default()
Precipitations(periods) ==
    [i \in 1..Len(periods) |->
        IF periods[i].probability_of_precipitation = <<>>
        THEN 0
        ELSE periods[i].probability_of_precipitation[1]]

\* ForecastPeriod::join, on a slice that is not empty.
ForecastPeriod_join(periods) ==
    [start_time |-> periods[1].start_time,
     end_time |-> periods[Len(periods)].end_time,
     temperature |-> RustDiv(Sum(Temperatures(periods)), Len(periods)),
     probability_of_precipitation |->
        <<RustDiv(Sum(Precipitations(periods)), Len(periods))>>]

\* slice.chunks(size)
RECURSIVE chunks(_, _)
chunks(slice, size) ==
    IF slice = <<>>
    THEN <<>>
    ELSE IF Len(slice) <= size
         THEN <<slice>>
         ELSE <<SubSeq(slice, 1, size)>>
                  \o chunks(SubSeq(slice, size + 1, Len(slice)), size)

\* day_range.contains(&time)
InDayRange(time) == DAY_START <= time /\ time <= DAY_END

\* A mutant of future_periods: a period is shown only when both its ends
\* are in the day.
future_periods_both(periods, tz) ==
    IF Len(periods) < 1
    THEN [status |-> "panic", periods |-> <<>>]
    ELSE LET joined == [i \in 1..Len(chunks(Tail(periods), JOINED_PERIODS)) |->
                           ForecastPeriod_join(
                               chunks(Tail(periods), JOINED_PERIODS)[i])]
             Shown(period) ==
                 /\ InDayRange(LocalTimeOfDay(period.start_time, tz))
                 /\ InDayRange(LocalTimeOfDay(period.end_time, tz))
         IN  [status |-> "ok", periods |-> SelectSeq(joined, Shown)]

\* Forecast::future_periods, collected; &periods[1..] panics on a forecast
\* without periods.
future_periods(periods, tz) ==
    IF Len(periods) < 1
    THEN [status |-> "panic", periods |-> <<>>]
    ELSE LET joined == [i \in 1..Len(chunks(Tail(periods), JOINED_PERIODS)) |->
                           ForecastPeriod_join(
                               chunks(Tail(periods), JOINED_PERIODS)[i])]
             Shown(period) ==
                 \/ InDayRange(LocalTimeOfDay(period.start_time, tz))
                 \/ InDayRange(LocalTimeOfDay(period.end_time, tz))
         IN  [status |-> "ok", periods |-> SelectSeq(joined, Shown)]

(***************************************************************************)
(* Weather (weather.rs): the forecast behind its RwLock and the threads    *)
(* that fetch_latest spawns.  A Weather is a record: forecast is the       *)
(* Option<(Forecast, Instant)>, <<>> for None or one record of the         *)
(* forecast (its periods) and fetched_at; fetches is the bag of the        *)
(* threads that have not ended yet, each a record of its place in its      *)
(* closure (pc), the forecast it has parsed and the Instant it took for    *)
(* it; the thread at "locked" holds the write lock; spawned counts the     *)
(* threads spawned so far.  Instants are seconds.                          *)
(***************************************************************************)
FORECAST_TTL == 600

Weather_new == [forecast |-> <<>>, fetches |-> EmptyBag, spawned |-> 0]

\* The thread as thread::spawn starts it.
FetchStart == [pc |-> "fetching", forecast |-> <<>>, now |-> 0]

\* A thread holds the write lock.
WriteLocked(w) == \E t \in BagToSet(w.fetches) : t.pc = "locked"

\* thread::spawn(move || ...): one more thread, at its start.
fetch_latest(w) ==
    [w EXCEPT !.fetches = @ (+) SetToBag({FetchStart}), !.spawned = @ + 1]

\* A mutant of Weather_forecast: a forecast exactly FORECAST_TTL old is
\* stale already.
Weather_forecast_eager(w, now) ==
    IF WriteLocked(w)
    THEN [weather |-> w, result |-> <<>>]
    ELSE IF w.forecast # <<>>
         THEN [weather |->
                  IF w.forecast[1].fetched_at + FORECAST_TTL <= now
                  THEN fetch_latest(w)
                  ELSE w,
               result |-> <<w.forecast[1].forecast>>]
         ELSE [weather |-> fetch_latest(w), result |-> <<>>]

\* A mutant of Weather_forecast: no thread is spawned while one is in
\* flight.
Weather_forecast_tracking(w, now) ==
    IF WriteLocked(w)
    THEN [weather |-> w, result |-> <<>>]
    ELSE IF w.forecast # <<>>
         THEN [weather |->
                  IF w.forecast[1].fetched_at + FORECAST_TTL < now
                        /\ w.fetches = EmptyBag
                  THEN fetch_latest(w)
                  ELSE w,
               result |-> <<w.forecast[1].forecast>>]
         ELSE [weather |-> IF w.fetches = EmptyBag THEN fetch_latest(w) ELSE w,
               result |-> <<>>]

\* Weather::forecast at Instant now: the Weather after the call and the
\* Option<Forecast> returned.  try_read fails while a thread holds the
\* write lock.
Weather_forecast(w, now) ==
    IF WriteLocked(w)
    THEN [weather |-> w, result |-> <<>>]
    ELSE IF w.forecast # <<>>
         THEN [weather |->
                  IF w.forecast[1].fetched_at + FORECAST_TTL < now
                  THEN fetch_latest(w)
                  ELSE w,
               result |-> <<w.forecast[1].forecast>>]
         ELSE [weather |-> fetch_latest(w), result |-> <<>>]

\* The steps of a thread t that fetch_latest has spawned.
\* request.call() and into_json() have returned Ok and Instant::now() is
\* taken.
fetch_parsed(w, t, forecast, now) ==
    [w EXCEPT !.fetches =
                  (@ (-) SetToBag({t}))
                      (+) SetToBag({[t EXCEPT !.pc = "saving",
                                              !.forecast = <<forecast>>,
                                              !.now = now]})]

\* request.call() or into_json() has returned Err: the error is logged and
\* the thread ends.
fetch_failed(w, t) == [w EXCEPT !.fetches = @ (-) SetToBag({t})]

\* lock.write() has returned the guard.
fetch_locked(w, t) ==
    [w EXCEPT !.fetches =
                  (@ (-) SetToBag({t})) (+) SetToBag({[t EXCEPT !.pc = "locked"]})]

\* *guard = Some((forecast, now)), the guard is dropped and the thread
\* ends.
fetch_stored(w, t) ==
    [w EXCEPT !.forecast = <<[forecast |-> t.forecast[1],
                              fetched_at |-> t.now]>>,
              !.fetches = @ (-) SetToBag({t})]

(***************************************************************************)
(* ForecastPeriod: the formatted values.  Strings are sequences of bytes.  *)
(***************************************************************************)
\* {} of an i32
SignedDecimal(n) == IF n < 0 THEN <<45>> \o Decimal(-n) ELSE Decimal(n)

\* {:>width}: spaces, then s; a longer s is not cut.
PadLeft(s, width) ==
    [i \in 1..(IF Len(s) < width THEN width - Len(s) ELSE 0) |-> 32] \o s

\* ForecastPeriod::temperature: the degree sign is two bytes of UTF-8.
ForecastPeriod_temperature(p) == SignedDecimal(p.temperature) \o <<194, 176>>

\* ForecastPeriod::prob_of_precip
ForecastPeriod_prob_of_precip(p) ==
    SignedDecimal(IF p.probability_of_precipitation = <<>>
                  THEN 0
                  ELSE p.probability_of_precipitation[1]) \o <<37>>

\* "%_I%P" of a time in minutes: the hour of the 12-hour clock, padded with
\* a space, and am or pm.
FormatHour(t, tz) ==
    LET hour == LocalTimeOfDay(t, tz) \div 60
    IN  SpacePadded2(Hour12(hour))
            \o (IF hour < 12 THEN <<97, 109>> ELSE <<112, 109>>)

(***************************************************************************)
(* Display (display.rs).  A tick is run on a record d that holds the       *)
(* fields of the Display (text_buffer, next_text_buffer, display,          *)
(* controller, weather), ret, what draw_text returned ("true", "false",    *)
(* "err", or "none" before the call), and err, whether the tick returns    *)
(* Err.  A TextItem is a record of text, location and font_size; display   *)
(* is the items drawn in the frame buffer since it was cleared;            *)
(* controller is the frame sent to the controller (ram) and the frame the  *)
(* panel shows (shown).                                                    *)
(***************************************************************************)
WEATHER_PERIODS == 4

char_dimensions(font_size) ==
    IF font_size = "Medium" THEN <<12, 16>> ELSE <<24, 32>>

\* add_text: the Display with the item pushed, and the dimensions of the
\* text, which is one line.
add_text(d, item_text, x, y, font_size) ==
    [d |-> [d EXCEPT !.next_text_buffer =
                         Append(@, [text |-> item_text, location |-> <<x, y>>,
                                    font_size |-> font_size])],
     dimensions |-> <<Len(item_text) * char_dimensions(font_size)[1],
                      char_dimensions(font_size)[2]>>]

\* for period in ..., from the i-th of periods, the next line at y.
RECURSIVE add_periods(_, _, _, _, _)
add_periods(d, periods, i, y, tz) ==
    IF i > Len(periods)
    THEN d
    ELSE LET line == FormatHour(periods[i].start_time, tz) \o <<45>>
                         \o FormatHour(periods[i].end_time, tz) \o <<32>>
                         \o PadLeft(ForecastPeriod_temperature(periods[i]), 4)
                         \o <<32>>
                         \o PadLeft(ForecastPeriod_prob_of_precip(periods[i]), 4)
             added == add_text(d, line, 0, y, "Medium")
         IN  add_periods(added.d, periods, i + 1, y + added.dimensions[2], tz)

\* draw_weather at the local time clock and the Instant now; tz is the
\* local time zone.  Forecast::now panics on a forecast without periods.
draw_weather(d, state, clock, now, tz) ==
    LET d1 == add_text(d, FormatTime(clock), 132, 0, "Large").d
        got == Weather_forecast(d1.weather, now)
        d2 == [d1 EXCEPT !.weather = got.weather, !.forecast = got.result]
    IN  IF got.result = <<>>
        THEN d2
        ELSE IF got.result[1] = <<>>
        THEN [d2 EXCEPT !.err = TRUE, !.panic = TRUE]
        ELSE LET periods == got.result[1]
                 a1 == add_text(d2, ForecastPeriod_temperature(periods[1]),
                                0, 0, "Large")
                 a2 == add_text(a1.d, ForecastPeriod_prob_of_precip(periods[1]),
                                0, a1.dimensions[2], "Medium")
                 y == a1.dimensions[2] + a2.dimensions[2] + 8
                 future == future_periods(periods, tz).periods
                 shown == SubSeq(future, state.weather_period + 1,
                                 Min(Len(future),
                                     state.weather_period + WEATHER_PERIODS))
             IN  add_periods(a2.d, shown, 1, y, tz)

\* A mutant of draw_text: the text that has not changed is left in
\* next_text_buffer.
draw_text_keep(d, failing) ==
    IF d.next_text_buffer # d.text_buffer
    THEN LET items == d.next_text_buffer
             d1 == [d EXCEPT !.text_buffer = items, !.next_text_buffer = <<>>]
         IN  IF failing \in 1..Len(items)
             THEN [d1 EXCEPT !.display = SubSeq(items, 1, failing - 1),
                             !.ret = "err", !.err = TRUE]
             ELSE [d1 EXCEPT !.display = items, !.ret = "true"]
    ELSE [d EXCEPT !.ret = "false"]

\* draw_text; failing is the place of the item whose draw returns Err, 0
\* when none does.
draw_text(d, failing) ==
    IF d.next_text_buffer # d.text_buffer
    THEN LET items == d.next_text_buffer
             d1 == [d EXCEPT !.text_buffer = items, !.next_text_buffer = <<>>]
         IN  IF failing \in 1..Len(items)
             THEN [d1 EXCEPT !.display = SubSeq(items, 1, failing - 1),
                             !.ret = "err", !.err = TRUE]
             ELSE [d1 EXCEPT !.display = items, !.ret = "true"]
    ELSE [d EXCEPT !.next_text_buffer = <<>>, !.ret = "false"]

\* A mutant of tick_drawn: text_buffer is committed only when the hardware
\* took the frame.
tick_drawn_retry(d1, fault) ==
    LET d2 == [d1 EXCEPT !.built = d1.next_text_buffer]
        d3 == draw_text(d2, IF fault.stage = "draw" THEN fault.item ELSE 0)
    IN  IF d1.panic
        THEN d1
        ELSE IF d3.ret # "true"
        THEN d3
        ELSE IF fault.stage = "update"
        THEN [d3 EXCEPT !.err = TRUE, !.text_buffer = d1.text_buffer]
        ELSE LET d4 == [d3 EXCEPT !.controller.ram = d3.display]
             IN  IF fault.stage = "display"
                 THEN [d4 EXCEPT !.err = TRUE, !.text_buffer = d1.text_buffer]
                 ELSE [d4 EXCEPT !.controller.shown = d4.controller.ram]

\* Display::tick; fault says which call on the hardware returns Err
\* ("draw" with the place of the item, "update" for update_bw_frame,
\* "display" for display_frame, "none").
\* tick_drawn is the tick from the return of draw_weather on.
tick_drawn(d1, fault) ==
    LET d2 == [d1 EXCEPT !.built = d1.next_text_buffer]
        d3 == draw_text(d2, IF fault.stage = "draw" THEN fault.item ELSE 0)
    IN  IF d1.panic
        THEN d1
        ELSE IF d3.ret # "true"
        THEN d3
        ELSE IF fault.stage = "update"
        THEN [d3 EXCEPT !.err = TRUE]
        ELSE LET d4 == [d3 EXCEPT !.controller.ram = d3.display]
             IN  IF fault.stage = "display"
                 THEN [d4 EXCEPT !.err = TRUE]
                 ELSE [d4 EXCEPT !.controller.shown = d4.controller.ram]

Display_tick(d, state, clock, now, tz, fault) ==
    tick_drawn(draw_weather(d, state, clock, now, tz), fault)
(***************************************************************************)
(* UserStateManager (state.rs).  An LcdUserState is a record of its mode.  *)
(* state.rs declares the mode Weather, the default; lcd.rs matches on the  *)
(* modes Off and Clock of the same enum.  The settings file is a record of *)
(* whether it exists and of its contents, a sequence of bytes.             *)
(***************************************************************************)
LcdModes == {"Weather", "Off", "Clock"}

LcdUserState_default == [mode |-> "Weather"]

\* #[serde(rename_all = "snake_case")], in ASCII
LcdMode_name(mode) ==
    CASE mode = "Weather" -> <<119, 101, 97, 116, 104, 101, 114>>
      [] mode = "Off" -> <<111, 102, 102>>
      [] mode = "Clock" -> <<99, 108, 111, 99, 107>>

\* serde_json::to_string_pretty(&new_state): an object of one field, "mode",
\* on a line of its own, two spaces in.
to_string_pretty(state) ==
    <<123, 10, 32, 32, 34, 109, 111, 100, 101, 34, 58, 32, 34>>
        \o LcdMode_name(state.mode) \o <<34, 10, 125>>

\* serde_json::from_slice(&contents), of what set has written: the state,
\* or an error for anything that is not one whole object.
from_slice(contents) ==
    LET states == {st \in [mode : LcdModes] : to_string_pretty(st) = contents}
    IN  IF states = {}
        THEN [status |-> "err", state |-> LcdUserState_default]
        ELSE [status |-> "ok", state |-> CHOOSE st \in states : TRUE]

\* UserStateManager::load: the state of the file, or the default if the
\* file cannot be read or parsed.
UserStateManager_load(file) ==
    IF file.exists /\ from_slice(file.contents).status = "ok"
    THEN from_slice(file.contents).state
    ELSE LcdUserState_default

NoFile == [exists |-> FALSE, contents |-> <<>>]

\* fs::write, first half: File::create makes the file or empties it.
File_create(file) == [exists |-> TRUE, contents |-> <<>>]

\* fs::write, second half: write_all puts the bytes at the start of the
\* file, over what another writer may have put there since the create.
File_write_all(file, bytes) ==
    [file EXCEPT !.contents =
         bytes \o SubSeq(@, Len(bytes) + 1, Len(@))]


(***************************************************************************)
(* State.                                                                  *)
(***************************************************************************)
VARIABLES
    color,        \* Lcd.color: the last-applied color
    text,         \* Lcd.text: the screen buffer
    diff_groups,  \* the diff_groups the last set_text built
    wire,         \* the writes the port accepted during the last call, in order
    failed,       \* the write that failed in the last call: <<>> or <<bytes>>
    dev,          \* the display
    last,         \* the last call: its arguments, its result, the state before
    task,         \* the place of the caller: "start", "loop" or "done"
    enc_command,  \* the LcdCommand last given to into_bytes
    enc_bytes,    \* what into_bytes returned for it
    shared_user_state,  \* the user state behind the RwLock
    rw,           \* the RwLock: who holds it and who waits for it, in order
    api,          \* the place of the API handler that sets the user state
    call_args,    \* the arguments of the pure function under check
    call_result,  \* what it returned for them: <<>> before the call
    weather,      \* Weather: the stored forecast, its lock, the fetch threads
    instant,      \* the time, in seconds since the process started
    text_buffer,  \* Display.text_buffer: the text on the e-paper screen
    next_text_buffer,  \* Display.next_text_buffer
    display,      \* Display.display: the text items drawn in the frame buffer
    controller,   \* Display.controller: the frame sent and the frame shown
    last_tick,    \* the last Display::tick: what it built and returned
    settings_file,  \* ./settings.json: whether it exists, and its contents
    set_calls     \* the calls of UserStateManager::set: where each one is

vars ==
    <<color, text, diff_groups, wire, failed, dev, last, task, enc_command,
      enc_bytes, shared_user_state, rw, api, call_args, call_result, weather,
      instant, text_buffer, next_text_buffer, display, controller, last_tick,
      settings_file, set_calls>>

state_vars == <<settings_file, set_calls>>

lcd_vars == <<color, text, diff_groups, wire, failed, dev, last, task>>

sched_vars == <<shared_user_state, rw, api>>

pure_vars == <<enc_command, enc_bytes, call_args, call_result>>

epaper_vars ==
    <<weather, instant, text_buffer, next_text_buffer, display, controller,
      last_tick>>

\* No call can make more writes than this: one for the color and two for
\* each group, and a group is at least one cell with a gap before the next.
MaxWrites == LCD_WIDTH * LCD_HEIGHT + 1

\* The record a call starts on: the Lcd as it is, and a port that accepts
\* budget more writes.
Machine(budget) ==
    [color |-> color, text |-> text, diff_groups |-> <<>>, sent |-> <<>>,
     failed |-> <<>>, budget |-> budget, err |-> FALSE, panic |-> FALSE,
     dev |-> dev, plan |-> <<>>, short |-> <<>>]

\* The same with a port that returns no error and cuts writes short as
\* plan says.
MachineShort(plan) == [Machine(MaxWrites) EXCEPT !.plan = plan]

NoCall ==
    [op |-> "none", mode |-> "none", color |-> Color_default,
     frame |-> LcdText_default, ok |-> TRUE, panic |-> FALSE,
     old_text |-> LcdText_default,
     old_color |-> Color_default, old_lines |-> LcdText_default.lines,
     prev_op |-> "none", prev_mode |-> "none", prev_clock_color |-> <<>>,
     short |-> <<>>]

\* The record of a call made now.  prev_clock_color is the color the last
\* Clock tick before this call asked for: <<>> if there was none; short is
\* the writes of this call that the port cut short.
Call(op, mode, c, frame, m) ==
    [op |-> op, mode |-> mode, color |-> c, frame |-> frame, ok |-> ~m.err,
     panic |-> m.panic, old_text |-> text, old_color |-> color, old_lines |-> dev.lines,
     prev_op |-> last.op, prev_mode |-> last.mode,
     prev_clock_color |->
         IF last.op = "on_tick" /\ last.mode = "Clock"
         THEN <<last.color>>
         ELSE last.prev_clock_color,
     short |-> m.short]

\* A mutant of Commit: the caller goes on whatever the call returned.
Commit_continue(m, call, next_task) ==
    /\ color' = m.color
    /\ text' = m.text
    /\ diff_groups' = m.diff_groups
    /\ wire' = m.sent
    /\ failed' = m.failed
    /\ dev' = m.dev
    /\ last' = call
    /\ task' = next_task

\* The state after a call that ended on m; the caller goes on at next_task
\* if the call returned Ok and ends if it returned Err.
Commit(m, call, next_task) ==
    /\ color' = m.color
    /\ text' = m.text
    /\ diff_groups' = m.diff_groups
    /\ wire' = m.sent
    /\ failed' = m.failed
    /\ dev' = m.dev
    /\ last' = call
    /\ task' = IF m.err THEN "done" ELSE next_task

InitDisplay(lines, backlight) ==
    [lines |-> lines, cx |-> 1, cy |-> 1, backlight |-> backlight, rgb |-> <<>>,
     garbled |-> FALSE]

(***************************************************************************)
(* SpecDiff: set_text on every pair of frames of a family.  A frame of the *)
(* family is blank but for a subset of the first NumDiffCells cells of     *)
(* DiffCells, each holding a byte of its own.  The cells are chosen so     *)
(* that a diff may have a group that ends a line while the next line       *)
(* starts with a changed cell, two groups in one line one unchanged cell   *)
(* apart, and a group of two cells.                                        *)
(***************************************************************************)
DiffCells ==
    << <<19, 0>>, <<0, 1>>, <<2, 1>>, <<18, 0>>, <<19, 3>>, <<1, 1>>,
       <<0, 0>> >>

DiffFrame(S) ==
    [lines |->
        [y \in 1..LCD_HEIGHT |->
            [x \in 1..LCD_WIDTH |->
                IF \E i \in S : DiffCells[i] = <<x - 1, y - 1>>
                THEN 64 + (CHOOSE i \in S : DiffCells[i] = <<x - 1, y - 1>>)
                ELSE 32]]]

DiffFrames ==
    {DiffFrame(S) : S \in SUBSET (1..Min(NumDiffCells, Len(DiffCells)))}

InitEncode ==
    /\ enc_command = Cmd_Clear
    /\ enc_bytes = <<>>
    /\ call_args = <<>>
    /\ call_result = <<>>

\* The user state as the task and the handlers find it when no handler of
\* the API is modelled: nobody holds the lock or waits for it.
InitSched ==
    /\ shared_user_state = [mode |-> "Off", color |-> Color_default]
    /\ rw = [readers |-> {}, writer |-> "none", queue |-> <<>>]
    /\ api = [set_pc |-> "idle", get_pc |-> "idle",
              data |-> [mode |-> "Off", color |-> Color_default]]

\* UserStateManager::load at the start: no settings file, no call of set.
\* The record of a call holds the file as it was when set was called.
NoSetCall ==
    [pc |-> "idle", new_state |-> LcdUserState_default, ret |-> "none",
     calls |-> 0, old_file |-> NoFile]

Callers == {"a", "b"}

InitManager ==
    /\ settings_file = NoFile
    /\ set_calls = [p \in Callers |-> NoSetCall]

\* No tick of the Display has been made yet.
NoTick ==
    [called |-> FALSE, built |-> <<>>, ret |-> "none", ok |-> TRUE,
     panic |-> FALSE, forecast |-> <<>>, spawned |-> 0]

\* Display::new and Weather::new: no text, no forecast, no thread.
InitEpaper ==
    /\ weather = Weather_new
    /\ instant = 0
    /\ text_buffer = <<>>
    /\ next_text_buffer = <<>>
    /\ display = <<>>
    /\ controller = [ram |-> <<>>, shown |-> <<>>]
    /\ last_tick = NoTick

InitDiff ==
    /\ color = Color_default
    /\ text \in DiffFrames
    /\ diff_groups = <<>>
    /\ wire = <<>>
    /\ failed = <<>>
    /\ dev = InitDisplay(text.lines, TRUE)
    /\ last = NoCall
    /\ task = "loop"
    /\ InitEncode
    /\ InitSched
    /\ InitEpaper
    /\ InitManager

\* One call of set_text, on any frame of the family and with the port
\* failing at any write or at none.
SetTextCall ==
    /\ task = "loop"
    /\ \E new \in DiffFrames :
         LET n == Len(set_text(Machine(MaxWrites), new).sent)
         IN  \E budget \in 0..n :
               LET m == set_text(Machine(budget), new)
               IN  Commit(m, Call("set_text", "none", color, new, m), "loop")
    /\ UNCHANGED <<state_vars, epaper_vars, pure_vars, sched_vars>>

NextDiff == SetTextCall

SpecDiff == InitDiff /\ [][NextDiff]_vars


(***************************************************************************)
(* Spec: the Lcd as Resource::spawn_task drives it: on_start once, then    *)
(* on_tick again and again with the user state and the local time of the   *)
(* moment; the first Err of either ends the task.                          *)
(***************************************************************************)
SampleInstants ==
    << [weekday |-> 4, month |-> 1, day |-> 1, hour |-> 0, minute |-> 0,
        second |-> 0],
       [weekday |-> 4, month |-> 1, day |-> 1, hour |-> 0, minute |-> 0,
        second |-> 1],
       [weekday |-> 3, month |-> 9, day |-> 30, hour |-> 9, minute |-> 59,
        second |-> 59],
       [weekday |-> 3, month |-> 9, day |-> 30, hour |-> 10, minute |-> 0,
        second |-> 0],
       [weekday |-> 1, month |-> 5, day |-> 5, hour |-> 13, minute |-> 7,
        second |-> 10],
       [weekday |-> 7, month |-> 12, day |-> 25, hour |-> 23, minute |-> 45,
        second |-> 30] >>

Instants ==
    {SampleInstants[i] : i \in 1..Min(NumInstants, Len(SampleInstants))}

\* What get_clock_text() returns at each of the instants.
ClockTexts == [now \in Instants |-> get_clock_text(now)]

SampleColors ==
    << [red |-> 0, green |-> 0, blue |-> 0],
       [red |-> 255, green |-> 0, blue |-> 0],
       [red |-> 0, green |-> 128, blue |-> 255],
       [red |-> 255, green |-> 255, blue |-> 255] >>

Colors == {SampleColors[i] : i \in 1..Min(NumColors, Len(SampleColors))}

\* Lcd::new leaves the display as the last run left it.
Init ==
    /\ color = Color_default
    /\ text = LcdText_default
    /\ diff_groups = <<>>
    /\ wire = <<>>
    /\ failed = <<>>
    /\ \E lines \in {LcdText_default.lines,
                     ClockTexts[SampleInstants[1]].text.lines},
          backlight \in BOOLEAN :
            dev = InitDisplay(lines, backlight)
    /\ last = NoCall
    /\ task = "start"
    /\ InitEncode
    /\ InitSched
    /\ InitEpaper
    /\ InitManager

OnStart ==
    /\ task = "start"
    /\ LET n == Len(on_start(Machine(MaxWrites)).sent)
       IN  \E budget \in 0..n :
             LET m == on_start(Machine(budget))
             IN  Commit(m, Call("on_start", "none", color, LcdText_default, m),
                        "loop")
    /\ UNCHANGED <<state_vars, epaper_vars, pure_vars, sched_vars>>

OnTickOff ==
    /\ task = "loop"
    /\ \E c \in Colors :
         LET user_state == [mode |-> "Off", color |-> c]
             clock == ClockTexts[SampleInstants[1]]
             n == Len(on_tick(Machine(MaxWrites), user_state, clock).sent)
         IN  \E budget \in 0..n :
               LET m == on_tick(Machine(budget), user_state, clock)
               IN  Commit(m, Call("on_tick", "Off", c, LcdText_default, m),
                          "loop")
    /\ UNCHANGED <<state_vars, epaper_vars, pure_vars, sched_vars>>

OnTickClock ==
    /\ task = "loop"
    /\ \E c \in Colors, now \in Instants :
         LET user_state == [mode |-> "Clock", color |-> c]
             clock == ClockTexts[now]
             n == Len(on_tick(Machine(MaxWrites), user_state, clock).sent)
         IN  \E budget \in 0..n :
               LET m == on_tick(Machine(budget), user_state, clock)
               IN  Commit(m, Call("on_tick", "Clock", c, clock.text, m),
                          "loop")
    /\ UNCHANGED <<state_vars, epaper_vars, pure_vars, sched_vars>>

Next == OnStart \/ OnTickOff \/ OnTickClock

Spec == Init /\ [][Next]_vars

(***************************************************************************)
(* SpecPort: one call of on_start or on_tick on a port that returns no     *)
(* error but may accept only the first bytes of a write and return their   *)
(* number.  The call starts from a state of the task of Spec: before       *)
(* on_start, or in the loop with the screen and the screen buffer both     *)
(* blank or both holding a clock frame and with the color a Clock tick has *)
(* set.                                                                    *)
(***************************************************************************)
\* The ports a call of up to n writes may meet: one that takes them all,
\* and those that cut up to MaxShortWrites of its first writes short.
Ports(n) ==
    LET places == 1..Min(n, MaxShortAt)
        cuts == {S \in SUBSET places : Cardinality(S) <= MaxShortWrites}
    IN  UNION {{MachineShort(plan) : plan \in [S -> 0..MaxAccepted]} : S \in cuts}

InitPort ==
    /\ diff_groups = <<>>
    /\ wire = <<>>
    /\ failed = <<>>
    /\ last = NoCall
    /\ \/ /\ task = "start"
          /\ color = Color_default
          /\ text = LcdText_default
          /\ \E lines \in {LcdText_default.lines,
                           ClockTexts[SampleInstants[1]].text.lines},
                backlight \in BOOLEAN :
                  dev = InitDisplay(lines, backlight)
       \/ /\ task = "loop"
          /\ color \in Colors
          /\ text \in {LcdText_default} \cup {ClockTexts[now].text : now \in Instants}
          /\ dev = [InitDisplay(text.lines, TRUE) EXCEPT
                       !.rgb = IF color = Color_default
                               THEN <<>>
                               ELSE Color_to_bytes(color)]
    /\ InitEncode
    /\ InitSched
    /\ InitEpaper
    /\ InitManager

PortOnStart ==
    /\ task = "start"
    /\ \E m0 \in Ports(Len(on_start(Machine(MaxWrites)).sent)) :
         LET m == on_start(m0)
         IN  Commit(m, Call("on_start", "none", color, LcdText_default, m),
                    "done")
    /\ UNCHANGED <<state_vars, epaper_vars, pure_vars, sched_vars>>

PortOnTickOff ==
    /\ task = "loop"
    /\ \E c \in Colors :
         LET user_state == [mode |-> "Off", color |-> c]
             clock == ClockTexts[SampleInstants[1]]
             n == Len(on_tick(Machine(MaxWrites), user_state, clock).sent)
         IN  \E m0 \in Ports(n) :
               LET m == on_tick(m0, user_state, clock)
               IN  Commit(m, Call("on_tick", "Off", c, LcdText_default, m),
                          "done")
    /\ UNCHANGED <<state_vars, epaper_vars, pure_vars, sched_vars>>

PortOnTickClock ==
    /\ task = "loop"
    /\ \E c \in Colors, now \in Instants :
         LET user_state == [mode |-> "Clock", color |-> c]
             clock == ClockTexts[now]
             n == Len(on_tick(Machine(MaxWrites), user_state, clock).sent)
         IN  \E m0 \in Ports(n) :
               LET m == on_tick(m0, user_state, clock)
               IN  Commit(m, Call("on_tick", "Clock", c, clock.text, m),
                          "done")
    /\ UNCHANGED <<state_vars, epaper_vars, pure_vars, sched_vars>>

NextPort == PortOnStart \/ PortOnTickOff \/ PortOnTickClock

SpecPort == InitPort /\ [][NextPort]_vars

(***************************************************************************)
(* SpecDrop: the task as in Spec, and the Lcd dropped at any point between *)
(* two calls: when the task has ended, or when it is aborted before its    *)
(* first poll or at an await of its loop.                                  *)
(***************************************************************************)
\* Drop::drop logs "Closing resource" and touches neither the port nor the
\* fields.
drop(m) == m

Drop ==
    /\ task # "dropped"
    /\ LET m == drop(Machine(MaxWrites))
       IN  Commit(m, Call("drop", "none", color, LcdText_default, m),
                  "dropped")
    /\ UNCHANGED <<state_vars, epaper_vars, pure_vars, sched_vars>>

NextDrop == OnStart \/ OnTickOff \/ OnTickClock \/ Drop

SpecDrop == Init /\ [][NextDrop]_vars

(***************************************************************************)
(* SpecSched: the task of spawn_task and the handlers of the API around    *)
(* the RwLock of the user state.  The lock is tokio's: those who ask for   *)
(* it are served in the order they asked, a reader together with other     *)
(* readers, a writer alone.  The task asks for the read lock at the top of *)
(* its loop, calls on_tick with what the guard points at, and the guard is *)
(* dropped at the end of that statement, whether on_tick returned Ok or    *)
(* Err.  set_lcd_json takes the write lock to store its data, then the     *)
(* read lock to answer; get_lcd_json takes the read lock.                  *)
(***************************************************************************)
UserStates == [mode : {"Off", "Clock"}, color : Colors]

\* Local::now() of the ticks: they all fall in one second.
SchedInstants == {SampleInstants[1]}

\* RwLock::read / RwLock::write, up to the await: proc joins the queue.
rw_request(lock, proc, kind) ==
    [lock EXCEPT !.queue = Append(@, [proc |-> proc, kind |-> kind])]

\* The guard of proc is dropped.
rw_release(lock, proc) ==
    [lock EXCEPT !.readers = @ \ {proc},
                 !.writer = IF @ = proc THEN "none" ELSE @]

\* The first in the queue can have the lock.
rw_can_grant(lock) ==
    /\ lock.queue # <<>>
    /\ lock.writer = "none"
    /\ Head(lock.queue).kind = "write" => lock.readers = {}

rw_grant(lock) ==
    LET first == Head(lock.queue)
    IN  IF first.kind = "read"
        THEN [lock EXCEPT !.readers = @ \cup {first.proc}, !.queue = Tail(@)]
        ELSE [lock EXCEPT !.writer = first.proc, !.queue = Tail(@)]

InitSpecSched ==
    /\ color = Color_default
    /\ text = LcdText_default
    /\ diff_groups = <<>>
    /\ wire = <<>>
    /\ failed = <<>>
    /\ dev = InitDisplay(LcdText_default.lines, FALSE)
    /\ last = NoCall
    /\ task = "start"
    /\ InitEncode
    /\ InitEpaper
    /\ InitManager
    /\ shared_user_state \in UserStates
    /\ rw = [readers |-> {}, writer |-> "none", queue |-> <<>>]
    /\ api = [set_pc |-> "idle", get_pc |-> "idle",
              data |-> shared_user_state]

\* A mutant of Grant: the lock prefers readers, whatever their place in
\* the queue, and wakes a writer only when no reader waits.
Grant_readers_first ==
    /\ rw.queue # <<>>
    /\ rw.writer = "none"
    /\ LET reads == {i \in 1..Len(rw.queue) : rw.queue[i].kind = "read"}
           i == IF reads # {} THEN CHOOSE j \in reads : TRUE ELSE 1
           rest == SubSeq(rw.queue, 1, i - 1)
                       \o SubSeq(rw.queue, i + 1, Len(rw.queue))
       IN  /\ reads = {} => rw.readers = {}
           /\ rw' = IF reads # {}
                    THEN [rw EXCEPT !.readers = @ \cup {rw.queue[i].proc},
                                    !.queue = rest]
                    ELSE [rw EXCEPT !.writer = rw.queue[i].proc,
                                    !.queue = rest]
    /\ UNCHANGED <<state_vars, epaper_vars, lcd_vars, pure_vars, shared_user_state, api>>

\* The lock wakes the first of those waiting.
Grant ==
    /\ rw_can_grant(rw)
    /\ rw' = rw_grant(rw)
    /\ UNCHANGED <<state_vars, epaper_vars, lcd_vars, pure_vars, shared_user_state, api>>

\* user_state.read().await, up to the await.
SchedRead ==
    /\ task = "loop"
    /\ task' = "read"
    /\ rw' = rw_request(rw, "task", "read")
    /\ UNCHANGED <<state_vars, epaper_vars, color, text, diff_groups, wire, failed, dev, last,
                   pure_vars, shared_user_state, api>>

\* A mutant of SchedTick: the guard outlives the statement.
SchedTick_keep ==
    /\ task = "read"
    /\ "task" \in rw.readers
    /\ \E now \in SchedInstants :
         LET clock == ClockTexts[now]
             n == Len(on_tick(Machine(MaxWrites), shared_user_state, clock).sent)
         IN  \E budget \in 0..n :
               LET m == on_tick(Machine(budget), shared_user_state, clock)
               IN  Commit(m, Call("on_tick", shared_user_state.mode,
                                  shared_user_state.color,
                                  IF shared_user_state.mode = "Clock"
                                  THEN clock.text ELSE LcdText_default, m),
                          "interval")
    /\ UNCHANGED <<state_vars, epaper_vars, rw, pure_vars, shared_user_state, api>>

\* self.on_tick(&*guard)?, with the read lock held; then the guard is
\* dropped.
SchedTick ==
    /\ task = "read"
    /\ "task" \in rw.readers
    /\ \E now \in SchedInstants :
         LET clock == ClockTexts[now]
             n == Len(on_tick(Machine(MaxWrites), shared_user_state, clock).sent)
         IN  \E budget \in 0..n :
               LET m == on_tick(Machine(budget), shared_user_state, clock)
               IN  Commit(m, Call("on_tick", shared_user_state.mode,
                                  shared_user_state.color,
                                  IF shared_user_state.mode = "Clock"
                                  THEN clock.text ELSE LcdText_default, m),
                          "interval")
    /\ rw' = rw_release(rw, "task")
    /\ UNCHANGED <<state_vars, epaper_vars, pure_vars, shared_user_state, api>>

\* interval.tick().await
SchedInterval ==
    /\ task = "interval"
    /\ task' = "loop"
    /\ UNCHANGED <<state_vars, epaper_vars, color, text, diff_groups, wire, failed, dev, last,
                   pure_vars, sched_vars>>

\* set_lcd_json is called with some data and asks for the write lock.
ApiSetRequest ==
    /\ api.set_pc = "idle"
    /\ \E data \in UserStates :
         api' = [api EXCEPT !.set_pc = "write", !.data = data]
    /\ rw' = rw_request(rw, "set", "write")
    /\ UNCHANGED <<state_vars, epaper_vars, lcd_vars, pure_vars, shared_user_state>>

\* It stores the data, drops the write guard and asks for the read lock.
ApiSetWrite ==
    /\ api.set_pc = "write"
    /\ rw.writer = "set"
    /\ shared_user_state' = api.data
    /\ rw' = rw_request(rw_release(rw, "set"), "set", "read")
    /\ api' = [api EXCEPT !.set_pc = "read"]
    /\ UNCHANGED <<state_vars, epaper_vars, lcd_vars, pure_vars>>

\* It answers with the user state it reads and drops the read guard.
ApiSetRead ==
    /\ api.set_pc = "read"
    /\ "set" \in rw.readers
    /\ rw' = rw_release(rw, "set")
    /\ api' = [api EXCEPT !.set_pc = "idle", !.data = shared_user_state]
    /\ UNCHANGED <<state_vars, epaper_vars, lcd_vars, pure_vars, shared_user_state>>

\* get_lcd_json is called and asks for the read lock.
ApiGetRequest ==
    /\ api.get_pc = "idle"
    /\ api' = [api EXCEPT !.get_pc = "read"]
    /\ rw' = rw_request(rw, "get", "read")
    /\ UNCHANGED <<state_vars, epaper_vars, lcd_vars, pure_vars, shared_user_state>>

ApiGetRead ==
    /\ api.get_pc = "read"
    /\ "get" \in rw.readers
    /\ rw' = rw_release(rw, "get")
    /\ api' = [api EXCEPT !.get_pc = "idle"]
    /\ UNCHANGED <<state_vars, epaper_vars, lcd_vars, pure_vars, shared_user_state>>

NextSched ==
    \/ OnStart
    \/ SchedRead
    \/ Grant
    \/ SchedTick
    \/ SchedInterval
    \/ ApiSetRequest
    \/ ApiSetWrite
    \/ ApiSetRead
    \/ ApiGetRequest
    \/ ApiGetRead

\* The task can call on_tick: it has the read lock.
TickEnabled == task = "read" /\ "task" \in rw.readers

\* The step is a call of on_tick by the task.
TickStep == task = "read" /\ task' # "read"

\* Each on_tick returns (weak fairness of SchedTick, written out: on_tick
\* can be called exactly when TickEnabled, and only SchedTick is a
\* TickStep), the lock wakes who is first in its queue, and a handler that
\* has the lock goes on.
SpecSched ==
    /\ InitSpecSched
    /\ [][NextSched]_vars
    /\ ([]<>(~TickEnabled) \/ []<><<TickStep>>_vars)
    /\ WF_vars(Grant)
    /\ WF_vars(ApiSetWrite)
    /\ WF_vars(ApiSetRead)
    /\ WF_vars(ApiGetRead)

(***************************************************************************)
(* SpecState: UserStateManager::set called by two callers at a time, each  *)
(* up to MaxSets times, on a manager that load has made from a settings    *)
(* file that was missing or held a state.  A call takes the write lock,    *)
(* stores the new state and lets the lock go; then it serializes the state *)
(* and writes the file, creating or emptying it first; serializing, the    *)
(* create and the write can each fail, a write that fails having written   *)
(* nothing.  The lock is tokio's, as in SpecSched.                         *)
(***************************************************************************)
InitSpecState ==
    /\ color = Color_default
    /\ text = LcdText_default
    /\ diff_groups = <<>>
    /\ wire = <<>>
    /\ failed = <<>>
    /\ dev = InitDisplay(LcdText_default.lines, FALSE)
    /\ last = NoCall
    /\ task = "start"
    /\ InitEncode
    /\ InitEpaper
    /\ rw = [readers |-> {}, writer |-> "none", queue |-> <<>>]
    /\ api = [set_pc |-> "idle", get_pc |-> "idle",
              data |-> [mode |-> "Off", color |-> Color_default]]
    /\ settings_file \in
          {NoFile} \cup {[exists |-> TRUE, contents |-> to_string_pretty(st)] :
                            st \in [mode : LcdModes]}
    /\ shared_user_state = UserStateManager_load(settings_file)
    /\ set_calls = [p \in Callers |-> NoSetCall]

\* set is called: self.state.write(), up to the await.
SetCall(p) ==
    /\ set_calls[p].pc = "idle"
    /\ set_calls[p].calls < MaxSets
    /\ \E new_state \in [mode : LcdModes] :
         set_calls' = [set_calls EXCEPT ![p] =
                          [pc |-> "lock", new_state |-> new_state,
                           ret |-> "none", calls |-> @.calls + 1,
                           old_file |-> settings_file]]
    /\ rw' = rw_request(rw, p, "write")
    /\ UNCHANGED <<settings_file, epaper_vars, lcd_vars, pure_vars,
                   shared_user_state, api>>

\* A mutant of SetStore: the write guard is kept while the file is written.
SetStore_guarded(p) ==
    /\ set_calls[p].pc = "lock"
    /\ rw.writer = p
    /\ shared_user_state' = set_calls[p].new_state
    /\ rw' = rw
    /\ set_calls' = [set_calls EXCEPT ![p].pc = "save"]
    /\ UNCHANGED <<settings_file, epaper_vars, lcd_vars, pure_vars, api>>

\* *self.state.write().await = new_state; the guard is dropped at the end
\* of the statement.
SetStore(p) ==
    /\ set_calls[p].pc = "lock"
    /\ rw.writer = p
    /\ shared_user_state' = set_calls[p].new_state
    /\ rw' = rw_release(rw, p)
    /\ set_calls' = [set_calls EXCEPT ![p].pc = "save"]
    /\ UNCHANGED <<settings_file, epaper_vars, lcd_vars, pure_vars, api>>

\* to_string_pretty(&new_state)? and the create of fs::write: either fails
\* and set returns the error, or the file is there and empty.
SetCreate(p) ==
    /\ set_calls[p].pc = "save"
    /\ \/ /\ settings_file' = File_create(settings_file)
          /\ set_calls' = [set_calls EXCEPT ![p].pc = "write"]
       \/ /\ settings_file' = settings_file
          /\ set_calls' = [set_calls EXCEPT ![p].pc = "idle", ![p].ret = "err"]
    /\ UNCHANGED <<epaper_vars, lcd_vars, pure_vars, sched_vars>>

\* The write_all of fs::write, and the return of set.
SetWrite(p) ==
    /\ set_calls[p].pc = "write"
    /\ \/ /\ settings_file' =
                File_write_all(settings_file,
                               to_string_pretty(set_calls[p].new_state))
          /\ set_calls' = [set_calls EXCEPT ![p].pc = "idle", ![p].ret = "ok"]
       \/ /\ settings_file' = settings_file
          /\ set_calls' = [set_calls EXCEPT ![p].pc = "idle", ![p].ret = "err"]
    /\ UNCHANGED <<epaper_vars, lcd_vars, pure_vars, sched_vars>>

NextState ==
    \/ Grant
    \/ \E p \in Callers : SetCall(p)
    \/ \E p \in Callers : SetStore(p)
    \/ \E p \in Callers : SetCreate(p)
    \/ \E p \in Callers : SetWrite(p)

SpecState == InitSpecState /\ [][NextState]_vars

(***************************************************************************)
(* SpecJumbo: the functions of the jumbo text, each applied once to an     *)
(* argument drawn at the start: get_jumbo_character to every byte,         *)
(* write_jumbo_text to every text of up to MaxJumboLen characters among    *)
(* the first NumJumboChars of SampleJumboChars and to line slices as       *)
(* get_clock_text passes them (19 wide, blank) or as the test of the       *)
(* repository does (20 wide; here filled with dots, to tell a cell left    *)
(* alone from a space written), and get_clock_text to every hour and       *)
(* minute of a day.                                                        *)
(***************************************************************************)
\* '1', ':', 'a', ' ', '0', '-', '8'
SampleJumboChars == <<49, 58, 97, 32, 48, 45, 56>>

JumboChars ==
    {SampleJumboChars[i] : i \in 1..Min(NumJumboChars, Len(SampleJumboChars))}

RECURSIVE TextsUpTo(_)
TextsUpTo(n) ==
    IF n = 0
    THEN {<<>>}
    ELSE LET shorter == TextsUpTo(n - 1)
         IN  shorter \cup {Append(t, c) : t \in shorter, c \in JumboChars}

JumboTexts == TextsUpTo(MaxJumboLen)

LineBuffers ==
    { [y \in 1..3 |-> [x \in 1..(LCD_WIDTH - 1) |-> 32]],
      [y \in 1..3 |-> [x \in 1..LCD_WIDTH |-> 46]] }

\* A Wednesday the 30th: no date is longer.
DayInstants ==
    {[weekday |-> 3, month |-> 9, day |-> 30, hour |-> h, minute |-> mi,
      second |-> 59] : h \in 0..23, mi \in 0..59}

InitSpecJumbo ==
    /\ color = Color_default
    /\ text = LcdText_default
    /\ diff_groups = <<>>
    /\ wire = <<>>
    /\ failed = <<>>
    /\ dev = InitDisplay(LcdText_default.lines, FALSE)
    /\ last = NoCall
    /\ task = "start"
    /\ enc_command = Cmd_Clear
    /\ enc_bytes = <<>>
    /\ InitSched
    /\ InitEpaper
    /\ InitManager
    /\ call_args \in
          {[fn |-> "get_jumbo_character", character |-> b] : b \in 0..255}
            \cup {[fn |-> "write_jumbo_text", line_buffer |-> lb, text |-> t] :
                      lb \in LineBuffers, t \in JumboTexts}
            \cup {[fn |-> "get_clock_text", now |-> now] : now \in DayInstants}
    /\ call_result = <<>>

GetJumboCharacter ==
    /\ call_result = <<>>
    /\ call_args.fn = "get_jumbo_character"
    /\ call_result' = get_jumbo_character(call_args.character)
    /\ UNCHANGED <<state_vars, epaper_vars, lcd_vars, sched_vars, enc_command, enc_bytes, call_args>>

WriteJumboText ==
    /\ call_result = <<>>
    /\ call_args.fn = "write_jumbo_text"
    /\ call_result' = write_jumbo_text(call_args.line_buffer, call_args.text)
    /\ UNCHANGED <<state_vars, epaper_vars, lcd_vars, sched_vars, enc_command, enc_bytes, call_args>>

GetClockText ==
    /\ call_result = <<>>
    /\ call_args.fn = "get_clock_text"
    /\ call_result' = get_clock_text(call_args.now)
    /\ UNCHANGED <<state_vars, epaper_vars, lcd_vars, sched_vars, enc_command, enc_bytes, call_args>>

NextJumbo == GetJumboCharacter \/ WriteJumboText \/ GetClockText

SpecJumbo == InitSpecJumbo /\ [][NextJumbo]_vars

(***************************************************************************)
(* SpecWeather: future_periods or join applied once to an argument drawn   *)
(* at the start.  For future_periods: the forecast of the test of the      *)
(* repository (17 hourly periods from 17:00, TZ=UTC), or up to MaxPeriods  *)
(* hourly periods from any half hour of a day, in UTC or four hours behind *)
(* it.  For join: a slice of consecutive periods of an hourly forecast.    *)
(***************************************************************************)
\* period(time, hours, temperature, probability_of_precipitation) of the
\* tests, time in minutes.
period(time, hours, temperature, probability_of_precipitation) ==
    [start_time |-> time, end_time |-> time + 60 * hours,
     temperature |-> temperature,
     probability_of_precipitation |-> <<probability_of_precipitation>>]

TestTemperatures ==
    <<84, 85, 86, 87, 85, 84, 82, 78, 75, 72, 69, 67, 65, 63, 60, 58, 57>>

TestPrecipitations ==
    <<1, 0, 0, 0, 10, 20, 30, 0, 0, 0, 0, 0, 30, 0, 0, 0, 0>>

TestForecast ==
    [i \in 1..17 |->
        period(17 * 60 + 60 * (i - 1), 1, TestTemperatures[i],
               TestPrecipitations[i])]

SampleTemperatures == <<84, -5, -6, 10, 71, -1, 0, 33, 21, -40>>

\* n hourly periods from minute start; every third has no probability of
\* precipitation.
HourlyForecast(start, n) ==
    [i \in 1..n |->
        [start_time |-> start + 60 * (i - 1), end_time |-> start + 60 * i,
         temperature |-> SampleTemperatures[((i - 1) % 10) + 1],
         probability_of_precipitation |->
            IF i % 3 = 0 THEN <<>> ELSE <<10 * i + 5>>]]

Forecasts ==
    {[fn |-> "future_periods", periods |-> TestForecast, tz |-> 0]}
        \cup {[fn |-> "future_periods",
                periods |-> HourlyForecast(30 * h, n), tz |-> tz] :
                   h \in 0..47, n \in 0..MaxPeriods, tz \in {0, -240}}

\* The slices given to join: every run of consecutive periods of an hourly
\* forecast of MaxPeriods periods.
JoinSlices ==
    {[fn |-> "join",
      periods |-> SubSeq(HourlyForecast(17 * 60, MaxPeriods), i, j)] :
         i \in 1..MaxPeriods, j \in 1..MaxPeriods} \ {[fn |-> "join", periods |-> <<>>]}

InitSpecWeather ==
    /\ color = Color_default
    /\ text = LcdText_default
    /\ diff_groups = <<>>
    /\ wire = <<>>
    /\ failed = <<>>
    /\ dev = InitDisplay(LcdText_default.lines, FALSE)
    /\ last = NoCall
    /\ task = "start"
    /\ enc_command = Cmd_Clear
    /\ enc_bytes = <<>>
    /\ InitSched
    /\ InitEpaper
    /\ InitManager
    /\ call_args \in Forecasts \cup JoinSlices
    /\ call_result = <<>>

FuturePeriods ==
    /\ call_result = <<>>
    /\ call_args.fn = "future_periods"
    /\ call_result' = future_periods(call_args.periods, call_args.tz)
    /\ UNCHANGED <<state_vars, epaper_vars, lcd_vars, sched_vars, enc_command, enc_bytes, call_args>>

Join ==
    /\ call_result = <<>>
    /\ call_args.fn = "join"
    /\ call_result' = ForecastPeriod_join(call_args.periods)
    /\ UNCHANGED <<state_vars, epaper_vars, lcd_vars, sched_vars, enc_command, enc_bytes,
                   call_args>>

NextWeather == FuturePeriods \/ Join

SpecWeather == InitSpecWeather /\ [][NextWeather]_vars

(***************************************************************************)
(* SpecDisplay: the e-paper Display ticked again and again, whatever its   *)
(* ticks return, while time passes and the threads of fetch_latest run.    *)
(* A thread parses one of FetchedForecasts or fails; time passes from one  *)
(* of SampleSeconds to a later one, so that a stored forecast is seen      *)
(* younger than the TTL, exactly as old, and older.  The wall clock starts *)
(* at 09:50 local time, which is UTC.                                      *)
(***************************************************************************)
\* The forecasts the API answers with; one has no periods.
FetchedForecasts ==
    {HourlyForecast(10 * 60, 8), <<>>}

\* UserState: the mode is Weather, weather_period is how many periods to
\* skip.
DisplayUserStates == {[mode |-> "Weather", weather_period |-> k] : k \in 0..0}

Faults ==
    {[stage |-> st, item |-> 0] : st \in {"none", "update", "display"}}
        \cup {[stage |-> "draw", item |-> 2]}

\* Local::now() at an Instant.
LocalClock(now) ==
    LET seconds == 9 * 3600 + 50 * 60 + now
    IN  [hour |-> (seconds \div 3600) % 24, minute |-> (seconds \div 60) % 60,
         second |-> seconds % 60]

\* The record a tick starts on: the Display as it is.
DisplayMachine ==
    [text_buffer |-> text_buffer, next_text_buffer |-> next_text_buffer,
     display |-> display, controller |-> controller, weather |-> weather,
     forecast |-> <<>>, built |-> <<>>, ret |-> "none", err |-> FALSE,
     panic |-> FALSE]

InitSpecDisplay ==
    /\ color = Color_default
    /\ text = LcdText_default
    /\ diff_groups = <<>>
    /\ wire = <<>>
    /\ failed = <<>>
    /\ dev = InitDisplay(LcdText_default.lines, FALSE)
    /\ last = NoCall
    /\ task = "start"
    /\ InitEncode
    /\ InitSched
    /\ InitEpaper
    /\ InitManager

\* One Display::tick; a tick that panics is the last.
Tick ==
    /\ ~last_tick.panic
    /\ \E state \in DisplayUserStates, fault \in Faults :
          LET d == Display_tick(DisplayMachine, state, LocalClock(instant),
                                instant, 0, fault)
          IN  /\ d.weather.spawned <= MaxFetches
              /\ weather' = d.weather
              /\ text_buffer' = d.text_buffer
              /\ next_text_buffer' = d.next_text_buffer
              /\ display' = d.display
              /\ controller' = d.controller
              /\ last_tick' =
                    [called |-> TRUE, built |-> d.built, ret |-> d.ret,
                     ok |-> ~d.err, panic |-> d.panic, forecast |-> d.forecast,
                     spawned |-> d.weather.spawned - weather.spawned]
    /\ UNCHANGED <<state_vars, lcd_vars, pure_vars, sched_vars, instant>>

\* The Instants at which something is done: the start, the TTL after it,
\* and a second more.
SampleSeconds == {0, FORECAST_TTL, FORECAST_TTL + 1}

\* Time passes, up to a later one of the Instants.
Advance ==
    /\ \E later \in SampleSeconds :
          /\ instant < later
          /\ later <= MaxSeconds
          /\ instant' = later
    /\ UNCHANGED <<state_vars, lcd_vars, pure_vars, sched_vars, weather, text_buffer,
                   next_text_buffer, display, controller, last_tick>>

FetchParsed ==
    /\ \E t \in BagToSet(weather.fetches), forecast \in FetchedForecasts :
          /\ t.pc = "fetching"
          /\ weather' = fetch_parsed(weather, t, forecast, instant)
    /\ UNCHANGED <<state_vars, lcd_vars, pure_vars, sched_vars, instant, text_buffer,
                   next_text_buffer, display, controller, last_tick>>

FetchFailed ==
    /\ \E t \in BagToSet(weather.fetches) :
          /\ t.pc = "fetching"
          /\ weather' = fetch_failed(weather, t)
    /\ UNCHANGED <<state_vars, lcd_vars, pure_vars, sched_vars, instant, text_buffer,
                   next_text_buffer, display, controller, last_tick>>

\* lock.write() returns when no thread holds the lock; a tick holds its
\* read guard only within its step.
FetchLocked ==
    /\ ~WriteLocked(weather)
    /\ \E t \in BagToSet(weather.fetches) :
          /\ t.pc = "saving"
          /\ weather' = fetch_locked(weather, t)
    /\ UNCHANGED <<state_vars, lcd_vars, pure_vars, sched_vars, instant, text_buffer,
                   next_text_buffer, display, controller, last_tick>>

FetchStored ==
    /\ \E t \in BagToSet(weather.fetches) :
          /\ t.pc = "locked"
          /\ weather' = fetch_stored(weather, t)
    /\ UNCHANGED <<state_vars, lcd_vars, pure_vars, sched_vars, instant, text_buffer,
                   next_text_buffer, display, controller, last_tick>>

NextDisplay ==
    Tick \/ Advance \/ FetchParsed \/ FetchFailed \/ FetchLocked \/ FetchStored

SpecDisplay == InitSpecDisplay /\ [][NextDisplay]_vars

(***************************************************************************)
(* SpecFetch: Weather alone, its forecast asked for again and again while  *)
(* time passes and the threads run as in SpecDisplay.  Here a thread also  *)
(* keeps the Instant at which it was spawned, and the API answers each     *)
(* request with the forecast as of that Instant, so that the stored        *)
(* forecast tells which request it came from.                              *)
(***************************************************************************)
\* The thread as thread::spawn starts it at Instant now.
FetchStartedAt(now) ==
    [pc |-> "fetching", forecast |-> <<>>, now |-> 0, started |-> now]

\* What the API answers to a request made at Instant started.
ForecastAsOf(started) == HourlyForecast(10 * 60 + started, 1)

\* Weather::forecast is called.
ForecastCall ==
    /\ LET r == Weather_forecast(weather, instant)
       IN  /\ r.weather.spawned <= MaxFetches
           /\ weather' =
                 IF r.weather.spawned > weather.spawned
                 THEN [r.weather EXCEPT !.fetches =
                          (@ (-) SetToBag({FetchStart}))
                              (+) SetToBag({FetchStartedAt(instant)})]
                 ELSE r.weather
           /\ call_args' = [fn |-> "forecast", now |-> instant]
           /\ call_result' = r.result
    /\ UNCHANGED <<state_vars, lcd_vars, sched_vars, enc_command, enc_bytes,
                   instant, text_buffer, next_text_buffer, display,
                   controller, last_tick>>

\* request.call() and into_json() of a thread return Ok.
FetchAnswered ==
    /\ \E t \in BagToSet(weather.fetches) :
          /\ t.pc = "fetching"
          /\ weather' = fetch_parsed(weather, t, ForecastAsOf(t.started), instant)
    /\ UNCHANGED <<state_vars, lcd_vars, pure_vars, sched_vars, instant,
                   text_buffer, next_text_buffer, display, controller,
                   last_tick>>

NextFetch ==
    ForecastCall \/ Advance \/ FetchAnswered \/ FetchFailed \/ FetchLocked
        \/ FetchStored

SpecFetch == InitSpecDisplay /\ [][NextFetch]_vars

(***************************************************************************)
(* SpecEncode: into_bytes on every command whose parameter bytes are among *)
(* the first NumBytes of SampleBytes.                                      *)
(***************************************************************************)
SampleBytes == <<0, 20, 4, 255, 254, 1, 128>>

Bytes == {SampleBytes[i] : i \in 1..Min(NumBytes, Len(SampleBytes))}

Commands ==
    {Cmd_Clear, Cmd_BacklightOn, Cmd_BacklightOff}
        \cup {Cmd_SetSize(w, h) : w \in Bytes, h \in Bytes}
        \cup {Cmd_SetBrightness(b) : b \in Bytes}
        \cup {Cmd_SetContrast(b) : b \in Bytes}
        \cup {Cmd_SetColor([red |-> r, green |-> g, blue |-> b]) :
                  r \in Bytes, g \in Bytes, b \in Bytes}
        \cup {Cmd_CursorPos(x, y) : x \in Bytes, y \in Bytes}
        \cup {Cmd_SaveCustomCharacter(b, c) : b \in Bytes, c \in CustomCharacter}
        \cup {Cmd_LoadCharacterBank(b) : b \in Bytes}

Encode ==
    /\ \E c \in Commands :
         /\ enc_command' = c
         /\ enc_bytes' = into_bytes(c)
    /\ UNCHANGED <<state_vars, epaper_vars, lcd_vars, sched_vars, call_args, call_result>>

NextEncode == Encode

SpecEncode == Init /\ [][NextEncode]_vars


(***************************************************************************)
(* What the claims speak of.                                               *)
(***************************************************************************)
Cells == (0..(LCD_WIDTH - 1)) \X (0..(LCD_HEIGHT - 1))

\* Cell (x, y) lies in one of the diff groups of the last call.
Covered(x, y) ==
    \E i \in 1..Len(diff_groups) :
        /\ diff_groups[i].y = y
        /\ diff_groups[i].x <= x
        /\ x < diff_groups[i].x + diff_groups[i].length

\* Cell (x, y) differs between the buffer before the last call and the frame
\* the call was given.
Changed(x, y) ==
    LcdText_get(last.old_text, x, y) # LcdText_get(last.frame, x, y)

\* The writes the last call made, the one that failed included.
Attempted == wire \o failed

IsFrame(bytes, tag) == Len(bytes) >= 2 /\ bytes[1] = 254 /\ bytes[2] = tag

SetTextDone == last.op = "set_text"

ClockTickDone == last.op = "on_tick" /\ last.mode = "Clock"

OffTickDone == last.op = "on_tick" /\ last.mode = "Off"

\* The first Clock tick after an Off tick, its writes having succeeded.
ClockAfterOff ==
    /\ ClockTickDone
    /\ last.ok
    /\ last.prev_op = "on_tick"
    /\ last.prev_mode = "Off"

\* The places of the SetColor commands among the writes of the last call.
SetColorWrites == {i \in 1..Len(Attempted) : IsFrame(Attempted[i], 208)}

\* into_bytes has been applied.
Encoded == enc_bytes # <<>>

\* The tag of each custom tile.
TileTag ==
    [HalfBottomRight |-> 0, HalfBottomLeft |-> 1, Bottom |-> 2,
     FullBottomRight |-> 3, FullBottomLeft |-> 4]

\* bytes is what on_start writes i-th.
StartWrite(i, bytes) ==
    CASE i = 1 -> bytes = <<254, 88>>
      [] i = 2 -> bytes = <<254, 66, 0>>
      [] i = 3 -> bytes = <<254, 209, 20, 4>>
      [] i = 4 -> IsFrame(bytes, 145) /\ Len(bytes) = 3
      [] i = 5 -> IsFrame(bytes, 152) /\ Len(bytes) = 3
      [] i \in 6..10 ->
            /\ Len(bytes) = 13
            /\ SubSeq(bytes, 1, 4) = <<254, 193, 193, 0>>
            /\ bytes[5] \in 0..4
      [] i = 11 -> bytes = <<254, 192, 0>>
      [] OTHER -> FALSE

\* The function under check has been applied.
Called(fn) == call_args.fn = fn /\ call_result # <<>>

\* The bytes get_jumbo_character has tiles for: the digits, ' ' and ':'.
JumboSupported == (48..57) \cup {32, 58}

\* The longest of the three tile rows of a supported character (0 for
\* another byte).
TileWidth(c) ==
    LET rows == get_jumbo_character(c).bytes
    IN  IF Len(rows) # 3
        THEN 0
        ELSE CHOOSE w \in {Len(rows[y]) : y \in 1..3} :
                 \A y \in 1..3 : Len(rows[y]) <= w

\* The column, from 0, where the i-th character of t starts: each
\* character before it takes its width and one column more.
RECURSIVE JumboStart(_, _)
JumboStart(t, i) ==
    IF i = 1 THEN 0 ELSE JumboStart(t, i - 1) + TileWidth(t[i - 1]) + 1

\* The first i characters of t are supported and fit lines of this width.
JumboFits(t, i, width) ==
    \A j \in 1..i :
        /\ t[j] \in JumboSupported
        /\ JumboStart(t, j) + TileWidth(t[j]) <= width

\* The i-th write of set_text for the groups it has built and the frame it
\* was given: the cursor position of a group, then the bytes of the group.
GroupWrite(i) ==
    LET g == diff_groups[(i + 1) \div 2]
    IN  IF i % 2 = 1
        THEN <<254, 71, g.x + 1, g.y + 1>>
        ELSE SubSeq(last.frame.lines[g.y + 1], g.x + 1, g.x + g.length)

\* What a cell may hold: an ASCII character (the space and the tags 0..4 of
\* the tiles are among them) or the solid block.
CellBytes == (0..127) \cup {FUL}

\* The places, among the writes of the last call, of the writes of text:
\* write_at sends the bytes of a group right after its CursorPos.
TextWrites ==
    {i \in 2..Len(Attempted) :
        IsFrame(Attempted[i - 1], 71) /\ Len(Attempted[i - 1]) = 4}

\* A step that is a Display::tick: time stands still, and the record of
\* the last tick changes or a thread is spawned.  (A tick that changes
\* neither leaves every variable as it is.)
DisplayTickStep ==
    /\ instant' = instant
    /\ \/ last_tick' # last_tick
       \/ weather'.spawned > weather.spawned

\* The last tick drew its text and then update_bw_frame or display_frame
\* returned Err.
UpdateFailed ==
    /\ last_tick.called
    /\ last_tick.ret = "true"
    /\ ~last_tick.ok

\* A step in which a fetch thread finds that its request or its parse
\* failed.
FetchFailedStep ==
    /\ CopiesIn(FetchStart, weather'.fetches)
          = CopiesIn(FetchStart, weather.fetches) - 1
    /\ BagCardinality(weather'.fetches) = BagCardinality(weather.fetches) - 1

\* The sum of the first k of values.
RECURSIVE Total(_, _)
Total(values, k) == IF k = 0 THEN 0 ELSE Total(values, k - 1) + values[k]

\* mean is total / count with the fraction dropped, whatever the sign.
IsTruncatedMean(mean, total, count) ==
    IF total >= 0
    THEN mean * count <= total /\ total < (mean + 1) * count
    ELSE (mean - 1) * count < total /\ total <= mean * count

\* The writes the last call makes when none of them returns an error: the
\* frame of each command and the bytes of each group, whole.
ExpectedWrites ==
    CASE last.op = "on_start" ->
            [i \in 1..Len(on_start_commands) |-> into_bytes(on_start_commands[i])]
      [] last.op = "on_tick" /\ last.mode = "Off" ->
            << <<254, 70>>, <<254, 88>> >>
      [] last.op = "on_tick" /\ last.mode = "Clock" ->
            (IF last.color # last.old_color
             THEN << <<254, 208, last.color.red, last.color.green,
                       last.color.blue>> >>
             ELSE <<>>)
                \o [i \in 1..(2 * Len(diff_groups)) |-> GroupWrite(i)]
      [] OTHER -> <<>>

\* The stored forecast is missing or stale at this Instant.
NeedsFetch ==
    \/ weather.forecast = <<>>
    \/ /\ weather.forecast # <<>>
       /\ weather.forecast[1].fetched_at + FORECAST_TTL < instant

\* The threads that have not ended, and the one that holds the write lock.
InFlight == BagCardinality(weather.fetches)

LockedFetches == {t \in BagToSet(weather.fetches) : t.pc = "locked"}

\* Every caller has called set and got Ok from it.
AllSetsOk == \A p \in Callers : set_calls[p].pc = "idle" /\ set_calls[p].ret = "ok"

\* Caller p has got an Err from set, and no other caller has called it.
SetFailedAlone(p) ==
    /\ set_calls[p].pc = "idle"
    /\ set_calls[p].ret = "err"
    /\ \A q \in Callers \ {p} : set_calls[q].calls = 0

\* Caller p neither holds the lock of the user state nor waits for it.
OffTheLock(p) ==
    /\ rw.writer # p
    /\ p \notin rw.readers
    /\ \A i \in 1..Len(rw.queue) : rw.queue[i].proc # p

\* The last call attempted no SetColor write.
NoSetColor == \A i \in 1..Len(Attempted) : ~IsFrame(Attempted[i], 208)

\* The last call was an on_tick that returned Err.
TickFailed == last.op = "on_tick" /\ ~last.ok

(***************************************************************************)
(* C1.  If the screen buffer and the screen both hold frame A, then        *)
(* set_text(B) whose writes all succeed makes positioned writes (a         *)
(* cursor position, then text) that leave the screen equal to B.           *)
(***************************************************************************)
C1_DiffYieldsNewFrame ==
    (SetTextDone /\ last.ok /\ last.old_lines = last.old_text.lines) =>
        /\ dev.lines = last.frame.lines
        /\ Len(wire) = 2 * Len(diff_groups)
        /\ \A i \in 1..Len(diff_groups) :
              /\ IsFrame(wire[2 * i - 1], 71)
              /\ Len(wire[2 * i - 1]) = 4
              /\ Len(wire[2 * i]) = diff_groups[i].length
              /\ wire[2 * i][1] # 254

C1_Witness ==
    /\ SetTextDone
    /\ last.ok
    /\ last.old_lines = last.old_text.lines
    /\ last.old_text # LcdText_default
    /\ Len(diff_groups) >= 3
    /\ \E i \in 1..Len(diff_groups) : diff_groups[i].length >= 2

(***************************************************************************)
(* C2.  No cell that is the same in the buffer and in the new frame lies   *)
(* in a diff group of set_text: unchanged cells are not sent again.        *)
(***************************************************************************)
C2_UnchangedNotCovered ==
    SetTextDone =>
        \A c \in Cells : ~Changed(c[1], c[2]) => ~Covered(c[1], c[2])

C2_Witness ==
    /\ SetTextDone
    /\ \E i \in 1..Len(diff_groups) :
          LET g == diff_groups[i]
          IN  /\ g.x + g.length < LCD_WIDTH
              /\ ~Changed(g.x + g.length, g.y)
              /\ LcdText_get(last.frame, g.x + g.length, g.y) # 32

(***************************************************************************)
(* C3.  Every diff group of set_text lies in one line: its line is one of  *)
(* the screen's, it has at least one cell and it ends at or before the     *)
(* end of the line; so the group open at the end of a line is closed       *)
(* before the next line starts.                                            *)
(***************************************************************************)
C3_GroupsWithinLine ==
    SetTextDone =>
        \A i \in 1..Len(diff_groups) :
            /\ diff_groups[i].y \in 0..(LCD_HEIGHT - 1)
            /\ diff_groups[i].x \in 0..(LCD_WIDTH - 1)
            /\ diff_groups[i].length >= 1
            /\ diff_groups[i].x + diff_groups[i].length <= 20

\* The last cell of a line and the first of the next have both changed.
C3_Witness ==
    /\ SetTextDone
    /\ \E y \in 0..(LCD_HEIGHT - 2) :
          /\ Changed(LCD_WIDTH - 1, y)
          /\ Changed(0, y + 1)
          /\ \E i \in 1..(Len(diff_groups) - 1) :
                /\ diff_groups[i].y = y
                /\ diff_groups[i].x + diff_groups[i].length = LCD_WIDTH
                /\ diff_groups[i + 1].y = y + 1
                /\ diff_groups[i + 1].x = 0

(***************************************************************************)
(* C4.  set_text on a frame equal to the buffer builds no diff group,      *)
(* writes nothing to the port and leaves the buffer as it was; so a        *)
(* second set_text on the same frame writes nothing.                       *)
(***************************************************************************)
C4_SameFrameWritesNothing ==
    (SetTextDone /\ last.frame = last.old_text) =>
        /\ diff_groups = <<>>
        /\ Attempted = <<>>
        /\ text = last.old_text
        /\ dev.lines = last.old_lines
        /\ last.ok

\* The second of two calls in a row on the same frame, which is not blank.
C4_Witness ==
    /\ SetTextDone
    /\ last.prev_op = "set_text"
    /\ last.frame = last.old_text
    /\ last.frame # LcdText_default


(***************************************************************************)
(* C5.  As claimed: on the first Clock tick after an Off tick every cell   *)
(* of the new frame lies in a diff group.                                  *)
(***************************************************************************)
C5_EveryCellRepainted ==
    ClockAfterOff => \A c \in Cells : Covered(c[1], c[2])

(***************************************************************************)
(* C5, amended.  On the first Clock tick after an Off tick the buffer is   *)
(* blank, so the cells in the diff groups are exactly the cells of the     *)
(* new frame that are not a space; they are sent, and as the Off tick      *)
(* cleared the screen, the screen then shows the whole new frame.          *)
(***************************************************************************)
C5_NonBlankCellsRepainted ==
    ClockAfterOff =>
        /\ last.old_text = LcdText_default
        /\ \A c \in Cells :
              Covered(c[1], c[2]) <=> LcdText_get(last.frame, c[1], c[2]) # 32
        /\ \E k \in {0, 1} :
              /\ Len(wire) = k + 2 * Len(diff_groups)
              /\ \A i \in 1..Len(diff_groups) :
                    /\ wire[k + 2 * i - 1]
                          = <<254, 71, diff_groups[i].x + 1, diff_groups[i].y + 1>>
                    /\ wire[k + 2 * i]
                          = SubSeq(last.frame.lines[diff_groups[i].y + 1],
                                   diff_groups[i].x + 1,
                                   diff_groups[i].x + diff_groups[i].length)
        /\ dev.lines = last.frame.lines

\* A Clock tick after an Off tick has sent the non-space cells of its frame
\* and left the space cells out of the diff groups.
C5_Witness ==
    /\ ClockAfterOff
    /\ diff_groups # <<>>
    /\ \E c \in Cells : ~Covered(c[1], c[2])
    /\ \E c \in Cells : Covered(c[1], c[2])

(***************************************************************************)
(* C6.  An on_tick in Off mode whose writes succeed sends BacklightOff and *)
(* then Clear, nothing else, and leaves a space in every cell of the       *)
(* screen buffer.                                                          *)
(***************************************************************************)
C6_OffTick ==
    (OffTickDone /\ last.ok) =>
        /\ wire = << <<254, 70>>, <<254, 88>> >>
        /\ failed = <<>>
        /\ \A c \in Cells : LcdText_get(text, c[1], c[2]) = 32

\* An Off tick that found the buffer not blank.
C6_Witness ==
    /\ OffTickDone
    /\ last.ok
    /\ last.old_text # LcdText_default
    /\ text = LcdText_default

(***************************************************************************)
(* C7.  In a Clock tick a SetColor command is emitted if and only if the   *)
(* requested color differs from the last-applied color; it is emitted at   *)
(* most once, it carries the requested color, and the last-applied color   *)
(* is then the requested one.                                              *)
(***************************************************************************)
C7_SetColorIffChanged ==
    ClockTickDone =>
        /\ (SetColorWrites # {}) <=> (last.color # last.old_color)
        /\ Cardinality(SetColorWrites) <= 1
        /\ \A i \in SetColorWrites :
              /\ Attempted[i]
                    = <<254, 208, last.color.red, last.color.green,
                        last.color.blue>>
              /\ color = last.color
        /\ (SetColorWrites = {}) => color = last.old_color

\* A Clock tick that asks for the color set by an earlier tick.
C7_Witness ==
    /\ ClockTickDone
    /\ last.color = last.old_color
    /\ last.color # Color_default
    /\ SetColorWrites = {}
    /\ wire # <<>>

(***************************************************************************)
(* C8.  into_bytes returns the command byte 0xFE, the tag of the variant   *)
(* and the variant's parameter bytes in their order: none for Clear and    *)
(* BacklightOff, one for BacklightOn, SetBrightness, SetContrast and       *)
(* LoadCharacterBank, two for SetSize and CursorPos, three (red, green,    *)
(* blue) for SetColor.  SetSize{20, 4} gives FE D1 14 04, Clear FE 58.     *)
(***************************************************************************)
C8_IntoBytesLayout ==
    Encoded =>
        LET c == enc_command
            t == enc_command.type
        IN  /\ Len(enc_bytes) >= 2
            /\ enc_bytes[1] = 254
            /\ t = "Clear" => enc_bytes = <<254, 88>>
            /\ t = "BacklightOff" => enc_bytes = <<254, 70>>
            /\ t = "BacklightOn" => enc_bytes = <<254, 66, 0>>
            /\ t = "SetBrightness" => enc_bytes = <<254, 152, c.brightness>>
            /\ t = "SetContrast" => enc_bytes = <<254, 145, c.contrast>>
            /\ t = "LoadCharacterBank" => enc_bytes = <<254, 192, c.bank>>
            /\ t = "SetSize" => enc_bytes = <<254, 209, c.width, c.height>>
            /\ t = "CursorPos" => enc_bytes = <<254, 71, c.x, c.y>>
            /\ t = "SetColor" =>
                  enc_bytes
                      = <<254, 208, c.color.red, c.color.green, c.color.blue>>
            /\ t = "SaveCustomCharacter" => enc_bytes[2] = 193
            /\ (t = "SetSize" /\ c.width = 20 /\ c.height = 4) =>
                  enc_bytes = <<254, 209, 20, 4>>

C8_Witness ==
    /\ enc_command.type = "SetSize"
    /\ enc_command.width = 20
    /\ enc_command.height = 4
    /\ enc_bytes = <<254, 209, 20, 4>>

(***************************************************************************)
(* C9.  SaveCustomCharacter encodes to the tag followed by exactly 11      *)
(* bytes: 0xC1, the bank, the tile's tag and the tile's 8 pixel rows, each *)
(* below 32; no other variant has this length.                             *)
(***************************************************************************)
C9_SaveCustomCharacterLayout ==
    Encoded =>
        IF enc_command.type = "SaveCustomCharacter"
        THEN /\ Len(enc_bytes) = 2 + 11
             /\ SubSeq(enc_bytes, 1, 5)
                   = <<254, 193, 193, enc_command.bank,
                       TileTag[enc_command.character]>>
             /\ \A i \in 6..13 : enc_bytes[i] \in 0..31
        ELSE Len(enc_bytes) # 2 + 11

C9_Witness ==
    /\ enc_command.type = "SaveCustomCharacter"
    /\ enc_command.bank = 255
    /\ enc_command.character = "FullBottomLeft"
    /\ Len(enc_bytes) = 13

(***************************************************************************)
(* C10.  on_start sends Clear, BacklightOn, SetSize{20, 4}, SetContrast,   *)
(* SetBrightness, one SaveCustomCharacter into bank 0 for each of the five *)
(* tiles, and last LoadCharacterBank{0}, in this order; the first write    *)
(* that fails ends it with the error, nothing being sent after it.         *)
(***************************************************************************)
C10_OnStartSequence ==
    last.op = "on_start" =>
        /\ \A i \in 1..Len(Attempted) : StartWrite(i, Attempted[i])
        /\ \A i, j \in (6..10) \cap (1..Len(Attempted)) :
              i # j => Attempted[i][5] # Attempted[j][5]
        /\ last.ok => (Len(wire) = 11 /\ failed = <<>> /\ task = "loop")
        /\ ~last.ok => (Len(wire) < 11 /\ Len(failed) = 1 /\ task = "done")

C10_Witness ==
    /\ last.op = "on_start"
    /\ last.ok
    /\ Len(wire) = 11
    /\ {wire[i][5] : i \in 6..10} = 0..4

(***************************************************************************)
(* C11.  on_start is the first call the task makes and it makes it once;   *)
(* on_tick is only called after on_start has returned Ok; when on_start    *)
(* returns Err the task ends, and an ended task calls nothing more.        *)
(***************************************************************************)
C11_StartOnceBeforeTicks ==
    [][/\ last'.op = "on_start" => (last.op = "none" /\ task = "start")
       /\ last'.op = "on_tick" =>
             /\ last.op \in {"on_start", "on_tick"}
             /\ last.op = "on_start" => last.ok
             /\ task # "start"
       /\ (last'.op = "on_start" /\ ~last'.ok) => task' = "done"
       /\ task = "done" => UNCHANGED lcd_vars]_vars

\* The first on_tick, right after an on_start that returned Ok.
C11_Witness ==
    /\ last.op = "on_tick"
    /\ last.prev_op = "on_start"
    /\ Attempted # <<>>

(***************************************************************************)
(* C12.  As claimed: after an on_tick that returned Err the task is still  *)
(* in its loop, to call on_tick again.                                     *)
(***************************************************************************)
C12_TickFailureIsolated ==
    (last.op = "on_tick" /\ ~last.ok) => task = "loop"

(***************************************************************************)
(* C13.  As claimed: when an on_tick that writes to the serial port is     *)
(* called, the task does not hold the read lock of the user state.         *)
(***************************************************************************)
C13_NoLockAcrossWrites ==
    [][(TickStep /\ wire' \o failed' # <<>>) => "task" \notin rw.readers]_vars

(***************************************************************************)
(* C13, amended.  The task holds the read lock of the user state when it   *)
(* calls on_tick, serial writes included, and no longer when on_tick has   *)
(* returned; it holds the lock nowhere else: not in on_start, not while it *)
(* waits for the interval, not once ended.                                 *)
(***************************************************************************)
C13_LockHeldForTheTick ==
    [][/\ TickStep => ("task" \in rw.readers /\ "task" \notin rw'.readers)
       /\ "task" \in rw'.readers => task' = "read"
       /\ rw'.writer # "task"]_vars

\* An on_tick has written to the port and returned, and the lock is free of
\* the task again.
C13_Witness ==
    /\ last.op = "on_tick"
    /\ wire # <<>>
    /\ task = "interval"
    /\ "task" \notin rw.readers

(***************************************************************************)
(* C14.  A set_lcd_json that waits for the write lock gets it, whatever    *)
(* the task and the other handler do with the read lock.                   *)
(***************************************************************************)
C14_WriterGetsTheLock ==
    (api.set_pc = "write" /\ rw.writer # "set") ~> (rw.writer = "set")

\* set_lcd_json waits for the write lock while the task holds the read lock
\* for its tick.
C14_Witness ==
    /\ api.set_pc = "write"
    /\ rw.writer # "set"
    /\ "task" \in rw.readers
    /\ task = "read"

(***************************************************************************)
(* C15.  As claimed: when the Lcd is dropped it sends a Clear command,     *)
(* and whether or not that write succeeds the drop completes.              *)
(***************************************************************************)
C15_DropSendsClear ==
    last.op = "drop" =>
        /\ Attempted = << <<254, 88>> >>
        /\ task = "dropped"

(***************************************************************************)
(* C16.  set_text writes, for its diff groups in the order of the scan     *)
(* (line by line, left to right), one CursorPos{x + 1, y + 1} and right    *)
(* after it the length bytes of the new frame at line y from column x;     *)
(* the cursor sent lies in 1..20 by 1..4.  When a write fails, the writes  *)
(* made are the first of these.                                            *)
(***************************************************************************)
C16_GroupIsCursorThenBytes ==
    SetTextDone =>
        /\ Len(Attempted) <= 2 * Len(diff_groups)
        /\ last.ok => Len(wire) = 2 * Len(diff_groups)
        /\ \A k \in 1..Len(Attempted) :
              LET group == diff_groups[(k + 1) \div 2]
              IN  IF k % 2 = 1
                  THEN /\ Attempted[k]
                            = <<254, 71, group.x + 1, group.y + 1>>
                       /\ Attempted[k][3] \in 1..20
                       /\ Attempted[k][4] \in 1..4
                  ELSE /\ Len(Attempted[k]) = group.length
                       /\ \A j \in 1..group.length :
                             Attempted[k][j]
                                 = LcdText_get(last.frame, group.x + j - 1,
                                               group.y)
        /\ \A i, j \in 1..Len(diff_groups) :
              i < j =>
                  \/ diff_groups[i].y < diff_groups[j].y
                  \/ /\ diff_groups[i].y = diff_groups[j].y
                     /\ diff_groups[i].x + diff_groups[i].length
                            < diff_groups[j].x

\* All the writes of a set_text with three groups or more, one of them in
\* the first column and one of them longer than a cell.
C16_Witness ==
    /\ SetTextDone
    /\ last.ok
    /\ Len(diff_groups) >= 3
    /\ Len(wire) = 2 * Len(diff_groups)
    /\ \E i \in 1..Len(diff_groups) : diff_groups[i].x = 0
    /\ \E i \in 1..Len(diff_groups) : diff_groups[i].length >= 2

(***************************************************************************)
(* C17.  get_jumbo_character returns three tile rows for the digits, ' '   *)
(* and ':' and an error for every other byte.  write_jumbo_text never      *)
(* returns Ok on a text with such a byte: it returns the error when the    *)
(* characters before the byte fit the lines, and it draws nothing, blank   *)
(* or other, at the byte's place or beyond.                                *)
(***************************************************************************)
C17_UnsupportedIsAnError ==
    /\ Called("get_jumbo_character") =>
          /\ call_result.status = "ok" <=> call_args.character \in JumboSupported
          /\ call_result.status \in {"ok", "err"}
          /\ call_result.status = "ok" =>
                /\ Len(call_result.bytes) = 3
                /\ \A y \in 1..3 : Len(call_result.bytes[y]) \in 1..3
    /\ (/\ Called("write_jumbo_text")
        /\ \E k \in 1..Len(call_args.text) :
               call_args.text[k] \notin JumboSupported) =>
          LET t == call_args.text
              width == Len(call_args.line_buffer[1])
              k == CHOOSE j \in 1..Len(t) :
                       /\ t[j] \notin JumboSupported
                       /\ \A h \in 1..(j - 1) : t[h] \in JumboSupported
          IN  /\ call_result.status # "ok"
              /\ JumboFits(t, k - 1, width) =>
                    /\ call_result.status = "err"
                    /\ \A y \in 1..3 :
                          \A x \in (JumboStart(t, k) + 1)..width :
                              call_result.lines[y][x]
                                  = call_args.line_buffer[y][x]

\* write_jumbo_text has met a byte it has no tiles for, after two characters
\* it drew into lines of dots.
C17_Witness ==
    /\ Called("write_jumbo_text")
    /\ Len(call_args.text) >= 4
    /\ call_args.text[1] \in JumboSupported
    /\ call_args.text[2] \in JumboSupported
    /\ call_args.text[3] = 97
    /\ call_result.status = "err"
    /\ call_args.line_buffer[1][1] = 46
    /\ call_result.lines[1][1] # 46

(***************************************************************************)
(* C18.  On a text of supported characters that fits the lines,            *)
(* write_jumbo_text returns Ok; the i-th character starts at the column    *)
(* that is the sum, over the characters before it, of the width of the     *)
(* character plus one; its three tile rows are in the three lines from     *)
(* that column; every other cell of the lines is as it was.                *)
(***************************************************************************)
C18_JumboPlacement ==
    (/\ Called("write_jumbo_text")
     /\ JumboFits(call_args.text, Len(call_args.text),
                  Len(call_args.line_buffer[1]))) =>
        LET t == call_args.text
            width == Len(call_args.line_buffer[1])
        IN  /\ call_result.status = "ok"
            /\ \A y \in 1..3 :
                  /\ Len(call_result.lines[y]) = width
                  /\ \A x \in 0..(width - 1) :
                        LET on == {j \in 1..Len(t) :
                                      /\ JumboStart(t, j) <= x
                                      /\ x < JumboStart(t, j)
                                               + Len(get_jumbo_character(t[j])
                                                         .bytes[y])}
                        IN  /\ Cardinality(on) <= 1
                            /\ \A j \in on :
                                  call_result.lines[y][x + 1]
                                      = get_jumbo_character(t[j])
                                            .bytes[y][x - JumboStart(t, j) + 1]
                            /\ on = {} =>
                                  call_result.lines[y][x + 1]
                                      = call_args.line_buffer[y][x + 1]

\* Five characters, a colon among them, drawn into lines of dots: the dots
\* between the characters and after them are still there.
C18_Witness ==
    /\ Called("write_jumbo_text")
    /\ call_result.status = "ok"
    /\ Len(call_args.text) = 5
    /\ call_args.text[3] = 58
    /\ call_args.text[1] = 49
    /\ call_args.line_buffer[1][4] = 46
    /\ call_result.lines[1][4] = 46
    /\ call_result.lines[1][20] = 46

(***************************************************************************)
(* C19.  For every hour and minute get_clock_text returns Ok: the time     *)
(* "%_I:%M" has five characters, its jumbo text is 17 columns wide and,    *)
(* drawn from column 1, ends at column 17 of the 20 (columns from 0); the  *)
(* lines are 20 wide, and column 0 and columns 18 and 19 of the three      *)
(* lines of the time are blank.                                            *)
(***************************************************************************)
C19_ClockFitsTheRow ==
    Called("get_clock_text") =>
        LET t == FormatTime(call_args.now)
            total == JumboStart(t, Len(t)) + TileWidth(t[Len(t)])
        IN  /\ Len(t) = 5
            /\ t[3] = 58
            /\ \A j \in 1..5 : t[j] \in JumboSupported
            /\ total = 17
            /\ 1 + total <= LCD_WIDTH
            /\ call_result.status = "ok"
            /\ \A y \in 1..LCD_HEIGHT :
                  Len(call_result.text.lines[y]) = LCD_WIDTH
            /\ \A y \in 2..LCD_HEIGHT :
                  \A x \in {1} \cup ((total + 2)..LCD_WIDTH) :
                      call_result.text.lines[y][x] = 32
            /\ \E y \in 2..LCD_HEIGHT :
                  call_result.text.lines[y][total + 1] # 32

\* The clock text of 10:08 at night, a two-digit hour.
C19_Witness ==
    /\ Called("get_clock_text")
    /\ call_args.now.hour = 22
    /\ call_args.now.minute = 8
    /\ call_result.status = "ok"
    /\ call_result.text.lines[2][2] = BOT

\* The chunk_index-th group of three, the last maybe shorter, of the periods
\* after the first: the places of its first and last period.
ChunkFirst(chunk_index) == 3 * chunk_index - 1

ChunkLast(chunk_index, n) ==
    IF 3 * chunk_index + 1 <= n THEN 3 * chunk_index + 1 ELSE n

\* The time lies from 04:30 to 22:30 of its local day.
Daytime(t, tz) == ((t + tz) % 1440) \in 270..1350

(***************************************************************************)
(* C20.  future_periods leaves the first period out, takes the others      *)
(* three by three in order (the last group may be shorter), makes of each  *)
(* group one period from the start of its first to the end of its last     *)
(* (temperature: the mean, cut towards zero), and yields, in order, just   *)
(* the groups whose local start or local end is from 04:30 to 22:30.       *)
(***************************************************************************)
C20_FuturePeriods ==
    (Called("future_periods") /\ Len(call_args.periods) >= 1) =>
        LET ps == call_args.periods
            n == Len(ps)
            tz == call_args.tz
            count == (n + 1) \div 3
            shown == {k \in 1..count :
                         \/ Daytime(ps[ChunkFirst(k)].start_time, tz)
                         \/ Daytime(ps[ChunkLast(k, n)].end_time, tz)}
            out == call_result.periods
        IN  /\ call_result.status = "ok"
            /\ Len(out) = Cardinality(shown)
            /\ \A k \in shown :
                  LET i == Cardinality({h \in shown : h <= k})
                      members == ChunkFirst(k)..ChunkLast(k, n)
                  IN  /\ out[i].start_time = ps[ChunkFirst(k)].start_time
                      /\ out[i].end_time = ps[ChunkLast(k, n)].end_time
                      /\ \E total \in -200..400 :
                            /\ total = Sum([j \in 1..Cardinality(members) |->
                                               ps[ChunkFirst(k) + j - 1]
                                                   .temperature])
                            /\ out[i].temperature * Cardinality(members)
                                   \in IF total >= 0
                                       THEN (total - Cardinality(members) + 1)
                                                ..total
                                       ELSE total
                                                ..(total + Cardinality(members)
                                                       - 1)

\* The forecast of the test of the repository and the five periods the test
\* expects: the night group from 00:00 to 03:00 is left out, the last group
\* is one period.
C20_Witness ==
    /\ Called("future_periods")
    /\ call_args.periods = TestForecast
    /\ call_result.status = "ok"
    /\ call_result.periods
          = << period(18 * 60, 3, 86, 0), period(21 * 60, 3, 83, 20),
               period(27 * 60, 3, 67, 10), period(30 * 60, 3, 60, 0),
               period(33 * 60, 1, 57, 0) >>

(***************************************************************************)
(* C21.  The diff groups of set_text come in scan order, top line first    *)
(* and left to right within a line, and they are the maximal runs of       *)
(* changed cells of each line: a cell is in a group exactly when it has    *)
(* changed, and between two groups of one line lies at least one cell,     *)
(* which has not changed.                                                  *)
(***************************************************************************)
C21_GroupsAreMaximalRuns ==
    SetTextDone =>
        /\ \A c \in Cells : Covered(c[1], c[2]) <=> Changed(c[1], c[2])
        /\ \A i \in 1..(Len(diff_groups) - 1) :
              LET g == diff_groups[i]
                  h == diff_groups[i + 1]
              IN  \/ g.y < h.y
                  \/ /\ g.y = h.y
                     /\ g.x + g.length < h.x
                     /\ \E x \in (g.x + g.length)..(h.x - 1) : ~Changed(x, g.y)

\* A call with a group of two cells and two groups in one line.
C21_Witness ==
    /\ SetTextDone
    /\ \E i \in 1..Len(diff_groups) : diff_groups[i].length >= 2
    /\ \E i \in 1..(Len(diff_groups) - 1) :
          /\ diff_groups[i].y = diff_groups[i + 1].y
          /\ diff_groups[i].x + diff_groups[i].length + 1 = diff_groups[i + 1].x
    /\ \E i \in 1..(Len(diff_groups) - 1) :
          diff_groups[i].y < diff_groups[i + 1].y

C23_FirstFailureEndsTheTick ==
    TickFailed =>
        /\ ~last.panic
        /\ Len(failed) = 1
        /\ task = "done"
        /\ last.mode = "Off" =>
              /\ Attempted \in { << <<254, 70>> >>, << <<254, 70>>, <<254, 88>> >> }
              /\ text = last.old_text
              /\ color = last.old_color
        /\ last.mode = "Clock" =>
              LET k == IF last.color # last.old_color THEN 1 ELSE 0
              IN  /\ k = 1 =>
                        Attempted[1] = <<254, 208, last.color.red,
                                         last.color.green, last.color.blue>>
                  /\ Len(wire) < k =>
                        /\ Attempted = << <<254, 208, last.color.red,
                                            last.color.green, last.color.blue>> >>
                        /\ diff_groups = <<>>
                        /\ text = last.old_text
                        /\ dev.lines = last.old_lines
                  /\ Len(wire) >= k =>
                        /\ text = last.frame
                        /\ Len(wire) - k < 2 * Len(diff_groups)
                        /\ \A i \in 1..(Len(Attempted) - k) :
                              Attempted[k + i] = GroupWrite(i)

\* A Clock tick whose SetColor failed, with a frame that differs from the
\* buffer and from what the screen shows.
C23_Witness ==
    /\ TickFailed
    /\ last.mode = "Clock"
    /\ wire = <<>>
    /\ IsFrame(failed[1], 208)
    /\ last.frame # last.old_text
    /\ last.frame.lines # dev.lines

(***************************************************************************)
(* C24.  As claimed: in every state the last-applied color is the color of *)
(* the last SetColor command the display has received, if it has received *)
(* one, and a SetColor whose write fails leaves the last-applied color as  *)
(* it was.                                                                 *)
(***************************************************************************)
C24_ColorIsLastSent ==
    /\ dev.rgb # <<>> => dev.rgb = Color_to_bytes(color)
    /\ (TickFailed /\ last.mode = "Clock" /\ IsFrame(failed[1], 208)) =>
          color = last.old_color

(***************************************************************************)
(* C25.  In every state the screen buffer has 4 lines of 20 bytes and      *)
(* every cell holds an ASCII character, the tag of a tile (0..4), the      *)
(* solid block 0xFF or a space; so no byte written as text is the command  *)
(* byte 0xFE.  The same holds of everything get_clock_text can draw from:  *)
(* the names of the days and months and the tiles of the jumbo characters. *)
(***************************************************************************)
C25_BufferCellsAreText ==
    /\ Len(text.lines) = 4
    /\ \A y \in 1..4 :
          /\ Len(text.lines[y]) = 20
          /\ \A x \in 1..20 : text.lines[y][x] \in CellBytes
    /\ \A i \in TextWrites :
          \A j \in 1..Len(Attempted[i]) :
              Attempted[i][j] \in CellBytes /\ Attempted[i][j] # 254
    /\ \A n \in 1..Len(WeekdayName) :
          \A j \in 1..Len(WeekdayName[n]) : WeekdayName[n][j] \in 0..127
    /\ \A n \in 1..Len(MonthAbbrev) :
          \A j \in 1..Len(MonthAbbrev[n]) : MonthAbbrev[n][j] \in 0..127
    /\ \A c \in JumboSupported :
          LET rows == get_jumbo_character(c).bytes
          IN  \A y \in 1..Len(rows) :
                  \A j \in 1..Len(rows[y]) :
                      rows[y][j] \in (0..4) \cup {FUL, EMT}

\* A Clock tick has put letters, tiles and solid blocks in the buffer and
\* sent them as text.
C25_Witness ==
    /\ ClockTickDone
    /\ last.ok
    /\ \E y \in 1..4, x \in 1..20 : text.lines[y][x] = FUL
    /\ \E y \in 1..4, x \in 1..20 : text.lines[y][x] \in 0..4
    /\ \E y \in 1..4, x \in 1..20 : text.lines[y][x] \in 65..122
    /\ \E i \in TextWrites : \E j \in 1..Len(wire[i]) : wire[i][j] = FUL
    /\ \E i \in TextWrites : \E j \in 1..Len(wire[i]) : wire[i][j] \in 0..4

(***************************************************************************)
(* C26.  Weather::forecast is a cache with a time to live of 600 seconds   *)
(* that never waits: it leaves the stored forecast and the lock as they    *)
(* are, and                                                                *)
(*   - when the lock is held for writing it returns None and spawns no     *)
(*     thread;                                                             *)
(*   - with no forecast stored it returns None and spawns a fetch;         *)
(*   - with a forecast stored at most 600 s ago it returns that forecast   *)
(*     and spawns nothing;                                                 *)
(*   - with a forecast stored more than 600 s ago it returns that forecast *)
(*     and spawns a fetch.                                                 *)
(* A fetch that fails leaves the stored forecast and its Instant as they   *)
(* are.                                                                    *)
(***************************************************************************)
C26_ForecastIsTtlCache ==
    [][/\ DisplayTickStep =>
             LET locked == WriteLocked(weather)
                 stored == weather.forecast
                 spawned == weather'.spawned - weather.spawned
                 result == last_tick'.forecast
             IN  /\ weather'.forecast = stored
                 /\ spawned = last_tick'.spawned
                 /\ weather'.fetches =
                       IF spawned = 1
                       THEN weather.fetches (+) SetToBag({FetchStart})
                       ELSE weather.fetches
                 /\ locked => result = <<>> /\ spawned = 0
                 /\ (~locked /\ stored = <<>>) =>
                       /\ result = <<>>
                       /\ spawned = 1
                 /\ (~locked /\ stored # <<>>) =>
                       /\ result = <<stored[1].forecast>>
                       /\ spawned =
                             IF instant - stored[1].fetched_at <= 600
                             THEN 0
                             ELSE 1
       /\ FetchFailedStep => weather'.forecast = weather.forecast
      ]_vars

\* A tick has been given the forecast stored 601 s before and has spawned
\* a fetch for a new one.
C26_Witness ==
    /\ last_tick.called
    /\ last_tick.forecast # <<>>
    /\ last_tick.forecast[1] # <<>>
    /\ last_tick.spawned = 1
    /\ weather.forecast # <<>>
    /\ weather.forecast[1].fetched_at + 600 < instant

C28_JoinIsTruncatedMean ==
    Called("join") =>
        LET periods == call_args.periods
            n == Len(periods)
            temperatures == [k \in 1..n |-> periods[k].temperature]
            probabilities ==
                [k \in 1..n |->
                    IF periods[k].probability_of_precipitation = <<>>
                    THEN 0
                    ELSE periods[k].probability_of_precipitation[1]]
        IN  /\ call_result.start_time = periods[1].start_time
            /\ call_result.end_time = periods[n].end_time
            /\ IsTruncatedMean(call_result.temperature,
                               Total(temperatures, n), n)
            /\ Len(call_result.probability_of_precipitation) = 1
            /\ IsTruncatedMean(call_result.probability_of_precipitation[1],
                               Total(probabilities, n), n)

\* A join of three periods whose temperatures are -5, -6 and 10 (-1 / 3 is
\* 0, not -1), one of them without a probability.
C28_Witness ==
    /\ Called("join")
    /\ Len(call_args.periods) = 3
    /\ call_args.periods[1].temperature = -5
    /\ call_args.periods[2].temperature = -6
    /\ call_args.periods[3].temperature = 10
    /\ \E k \in 1..3 : call_args.periods[k].probability_of_precipitation = <<>>
    /\ call_result.temperature = 0
    /\ call_result.end_time = call_result.start_time + 3 * 60

(***************************************************************************)
(* C29.  While no write has failed, after on_start and after every         *)
(* on_tick, in Off or Clock mode and in any order, the screen holds in     *)
(* every cell the byte the screen buffer holds for it.                     *)
(***************************************************************************)
C29_ScreenEqualsBuffer ==
    (last.op # "none" /\ failed = <<>> /\ ~last.panic) =>
        /\ task = "loop"
        /\ \A c \in Cells :
              dev.lines[c[2] + 1][c[1] + 1] = LcdText_get(text, c[1], c[2])

\* A Clock tick that found another clock frame in the buffer and sent some
\* of its cells only: a cell that is not a space lies outside every group.
C29_Witness ==
    /\ ClockTickDone
    /\ last.ok
    /\ last.prev_mode = "Clock"
    /\ last.old_text # LcdText_default
    /\ text # last.old_text
    /\ diff_groups # <<>>
    /\ \E c \in Cells :
          ~Covered(c[1], c[2]) /\ LcdText_get(text, c[1], c[2]) # 32

(***************************************************************************)
(* C30.  No on_tick attempts a BacklightOn write, on_start attempts one at *)
(* most; and once on_start has returned, a backlight that is off stays off *)
(* whatever ticks follow.                                                  *)
(***************************************************************************)
C30_BacklightOnOnlyAtStart ==
    /\ [](/\ last.op = "on_tick" =>
               \A i \in 1..Len(Attempted) : ~IsFrame(Attempted[i], 66)
          /\ last.op = "on_start" =>
               Cardinality({i \in 1..Len(Attempted) :
                               IsFrame(Attempted[i], 66)}) <= 1)
    /\ [][(task = "loop" /\ ~dev.backlight) => ~dev'.backlight]_vars

\* A Clock tick that followed an Off tick and wrote its frame to a display
\* whose backlight on_start had switched on and which is now off.
C30_Witness ==
    /\ ClockTickDone
    /\ last.ok
    /\ last.prev_mode = "Off"
    /\ text # LcdText_default
    /\ dev.lines = text.lines
    /\ ~dev.backlight

(***************************************************************************)
(* C31.  An on_tick in Off mode, whatever it returns, leaves the           *)
(* last-applied color as it was; and a Clock tick that comes right after   *)
(* an Off tick and asks for the color the last Clock tick before it asked  *)
(* for attempts no SetColor.                                               *)
(***************************************************************************)
C31_OffKeepsColor ==
    /\ OffTickDone => color = last.old_color
    /\ (ClockTickDone /\ last.prev_mode = "Off"
            /\ last.prev_clock_color = <<last.color>>) =>
          /\ \A i \in 1..Len(Attempted) : ~IsFrame(Attempted[i], 208)
          /\ color = last.color

\* A Clock tick after an Off tick that asks again for the color, not the
\* default one, that the Clock tick before the Off tick had set, and
\* writes its frame on the cleared screen.
C31_Witness ==
    /\ ClockTickDone
    /\ last.ok
    /\ last.prev_mode = "Off"
    /\ last.prev_clock_color = <<last.color>>
    /\ last.color # Color_default
    /\ dev.rgb = Color_to_bytes(color)
    /\ wire # <<>>

(***************************************************************************)
(* C32.  Before the first call the last-applied color is (0,0,0) and the   *)
(* display has received no SetColor; on_start attempts none; a first Clock *)
(* tick that asks for (0,0,0) attempts none; and the display receives no   *)
(* SetColor in any step other than a Clock tick that asks for a color      *)
(* other than (0,0,0).                                                     *)
(***************************************************************************)
C32_BlackIsNeverSentFirst ==
    /\ [](/\ last.op = "none" => (color = Color_BLACK /\ dev.rgb = <<>>)
          /\ last.op = "on_start" =>
                (NoSetColor /\ color = Color_BLACK /\ dev.rgb = <<>>)
          /\ (ClockTickDone /\ last.prev_clock_color = <<>>
                  /\ last.color = Color_BLACK) =>
                (NoSetColor /\ color = Color_BLACK /\ dev.rgb = <<>>))
    /\ [][(dev.rgb = <<>> /\ dev'.rgb # <<>>) =>
             (/\ last'.op = "on_tick"
              /\ last'.mode = "Clock"
              /\ last'.color # Color_BLACK)]_vars

\* A first Clock tick that asked for (0,0,0) and wrote its frame: the
\* backlight is on, the clock is on the screen, and the display has been
\* sent no color.
C32_Witness ==
    /\ ClockTickDone
    /\ last.ok
    /\ last.prev_clock_color = <<>>
    /\ last.color = Color_BLACK
    /\ wire # <<>>
    /\ dev.lines = last.frame.lines
    /\ dev.backlight
    /\ dev.rgb = <<>>

(***************************************************************************)
(* C33.  On a port that returns no error but may accept only the first     *)
(* bytes of a write: every call returns Ok and makes exactly one write     *)
(* call for each command frame and each text slice, handing it whole,      *)
(* whether or not an earlier write was cut short; the bytes the port did   *)
(* not accept are handed to it in no later write; and after a text slice   *)
(* cut short the cells of its group beyond the accepted bytes still show   *)
(* what the screen showed before the call.                                 *)
(***************************************************************************)
C33_ShortWriteIsOk ==
    last.op # "none" =>
        /\ last.ok
        /\ failed = <<>>
        /\ wire = ExpectedWrites
        /\ \A k \in 1..Len(last.short) :
              LET at == last.short[k].at
                  n == last.short[k].accepted
              IN  /\ at \in 1..Len(wire)
                  /\ n < Len(wire[at])
                  /\ (ClockTickDone /\ ~dev.garbled /\ Len(last.short) = 1
                          /\ at > 1 /\ IsFrame(wire[at - 1], 71)) =>
                        \A j \in (n + 1)..Len(wire[at]) :
                            dev.lines[wire[at - 1][4]][wire[at - 1][3] + j - 1]
                              = last.old_lines[wire[at - 1][4]]
                                              [wire[at - 1][3] + j - 1]

\* A Clock tick that returned Ok although the port took one byte only of a
\* text slice of several: the screen buffer holds the whole frame, the
\* screen does not.
C33_Witness ==
    /\ ClockTickDone
    /\ last.ok
    /\ Len(last.short) = 1
    /\ ~IsFrame(wire[last.short[1].at], 71)
    /\ ~IsFrame(wire[last.short[1].at], 208)
    /\ last.short[1].accepted = 1
    /\ Len(wire[last.short[1].at]) > 2
    /\ ~dev.garbled
    /\ text = last.frame
    /\ dev.lines # text.lines

(***************************************************************************)
(* C35.  A call of set that has stored its state and is serializing it or  *)
(* writing the file holds no lock, so the other call can store its state   *)
(* and write the file meanwhile.  When both calls have returned Ok the     *)
(* state in memory is the new state of one of them and the file starts     *)
(* with the bytes of the new state of one of them, not always of the same  *)
(* one.                                                                    *)
(***************************************************************************)
C35_FileWrittenOffTheLock ==
    /\ \A p \in Callers :
          set_calls[p].pc \in {"save", "write"} => OffTheLock(p)
    /\ AllSetsOk =>
          /\ \E p \in Callers : shared_user_state = set_calls[p].new_state
          /\ settings_file.exists
          /\ \E p \in Callers :
                LET bytes == to_string_pretty(set_calls[p].new_state)
                IN  /\ Len(settings_file.contents) >= Len(bytes)
                    /\ SubSeq(settings_file.contents, 1, Len(bytes)) = bytes

\* Both calls have returned Ok, and the file holds a whole state that is
\* not the state in memory.
C35_Witness ==
    /\ AllSetsOk
    /\ from_slice(settings_file.contents).status = "ok"
    /\ from_slice(settings_file.contents).state # shared_user_state
    /\ UserStateManager_load(settings_file) # shared_user_state

(***************************************************************************)
(* C36.  As claimed: when a call of set, the only one so far or in         *)
(* progress, returns an error, the state in memory is the new state and    *)
(* the file is as it was when set was called.                              *)
(***************************************************************************)
C36_FailedSetKeepsFile ==
    \A p \in Callers :
        SetFailedAlone(p) =>
            /\ shared_user_state = set_calls[p].new_state
            /\ settings_file = set_calls[p].old_file

(***************************************************************************)
(* What does hold of C36: when a call of set, the only one so far or in    *)
(* progress, returns an error, the state in memory is the new state; the   *)
(* file is as it was when set was called, or, when the write failed after  *)
(* fs::write had created or emptied the file, it is there and empty, so    *)
(* that load would return the default state.                               *)
(***************************************************************************)
C36_FailedSetKeepsMemory ==
    \A p \in Callers :
        SetFailedAlone(p) =>
            /\ shared_user_state = set_calls[p].new_state
            /\ \/ settings_file = set_calls[p].old_file
               \/ /\ settings_file = File_create(set_calls[p].old_file)
                  /\ UserStateManager_load(settings_file) = LcdUserState_default

\* A call of set returned an error and the file still holds the state it
\* held before, which is not the state in memory.
C36_Witness ==
    \E p \in Callers :
        /\ SetFailedAlone(p)
        /\ set_calls[p].old_file.exists
        /\ settings_file = set_calls[p].old_file
        /\ from_slice(settings_file.contents).status = "ok"
        /\ from_slice(settings_file.contents).state # shared_user_state

(***************************************************************************)
(* C37.  In every state in which the stored forecast is missing or stale   *)
(* and no thread holds the write lock, a call of forecast spawns one more  *)
(* thread, however many are in flight; and the thread that holds the write *)
(* lock, when it lets it go, leaves its own forecast and Instant stored,   *)
(* whatever was stored before and whichever request it came from.          *)
(***************************************************************************)
C37_FetchesAreNotTracked ==
    /\ []((NeedsFetch /\ ~WriteLocked(weather)) =>
            LET w == Weather_forecast(weather, instant).weather
            IN  /\ w.spawned = weather.spawned + 1
                /\ BagCardinality(w.fetches) = InFlight + 1)
    /\ [][(WriteLocked(weather) /\ ~WriteLocked(weather')) =>
             \E t \in LockedFetches :
                 /\ weather'.forecast =
                       <<[forecast |-> t.forecast[1], fetched_at |-> t.now]>>
                 /\ weather'.fetches = weather.fetches (-) SetToBag({t})]_vars

\* Two threads were spawned; the one spawned later has stored its
\* forecast; the one spawned earlier now holds the write lock and is about
\* to store the forecast of its earlier request over it.
C37_Witness ==
    /\ weather.spawned >= 2
    /\ weather.forecast # <<>>
    /\ \E t \in LockedFetches :
          \E later \in SampleSeconds :
              /\ t.started < later
              /\ weather.forecast[1].forecast = ForecastAsOf(later)
              /\ t.forecast[1] = ForecastAsOf(t.started)
              /\ t.forecast[1] # weather.forecast[1].forecast

C34_OffIsNotDeduplicated ==
    /\ OffTickDone =>
          /\ Len(Attempted) \in 1..2
          /\ Attempted = SubSeq(<< <<254, 70>>, <<254, 88>> >>, 1,
                                Len(Attempted))
          /\ last.ok <=> wire = << <<254, 70>>, <<254, 88>> >>
    /\ (ClockTickDone /\ last.color = last.old_color
            /\ last.frame = last.old_text) =>
          /\ Attempted = <<>>
          /\ last.ok

\* An Off tick that sent both commands although the call before it was an
\* Off tick and the screen and the screen buffer were blank.
C34_Witness ==
    /\ OffTickDone
    /\ last.ok
    /\ last.prev_op = "on_tick"
    /\ last.prev_mode = "Off"
    /\ last.old_text = LcdText_default
    /\ last.old_lines = LcdText_default.lines
    /\ wire = << <<254, 70>>, <<254, 88>> >>
    /\ ~dev.backlight

\* A Clock tick with the color and the frame of the tick before it: it
\* sent nothing.
C34_ClockWitness ==
    /\ ClockTickDone
    /\ last.ok
    /\ last.prev_op = "on_tick"
    /\ last.prev_mode = "Clock"
    /\ last.color = last.old_color
    /\ last.color # Color_default
    /\ last.frame = last.old_text
    /\ wire = <<>>

=============================================================================
